---------------------------- MODULE Spec2Model ----------------------------
(***************************************************************************)
(* A model of the initialization / handshake state machine of              *)
(* installCadesPlugin (cadesplugin_api.install.ts): the candidate-URL      *)
(* loop, the CSP violation recorder, the postMessage echo wait, the        *)
(* native-host check and the settle-once facade.                           *)
(*                                                                         *)
(* Scheduling follows the browser event loop: every action is one task     *)
(* (a timer callback, a script load/error signal, a message event, a       *)
(* callback of the extension) together with the promise continuations      *)
(* (microtasks) it releases.  The one continuation kept as a step of its   *)
(* own is the one after the native-host check, because the extension may   *)
(* still run code (set(), the second callback) in the task that called     *)
(* the first callback; no other task runs while it is pending.             *)
(***************************************************************************)
EXTENDS Integers, Sequences, FiniteSets, TLC

VARIABLES
    pc,               \* position of init(): idle, loading, echo, native, done
    urls,             \* the candidate URL list of this negotiation
    idx,              \* index in urls of the candidate being loaded
    scripts,          \* script elements created by loadScript: [src, st]
    cspListening,     \* the securitypolicyviolation listener is registered
    violations,       \* the recorder's violations array
    lastCspViolation, \* init's local lastCspViolation
    lastLoadError,    \* init's local lastLoadError (its message)
    loadedUrl,        \* init's local loadedUrl
    bridge,           \* win.cpcsp_chrome_nmcades.check_chrome_plugin exists
    posted,           \* messages the page posted with win.postMessage
    origin,           \* init's local origin (win.location.origin or null)
    echoListener,     \* waitForMessage's message listener is registered
    handshakeTimer,   \* waitForMessage's timer: unarmed, armed, fired, cleared
    nativeCalls,      \* number of check_chrome_plugin invocations
    nativePromise,    \* the promise wrapping check_chrome_plugin
    pluginObject,     \* the closure variable pluginObject
    facade,           \* win.cadesplugin holds the facade
    settled,          \* the closure variable settled
    state,            \* state of initPromise: pending, resolved, rejected
    reason,           \* rejection reason of initPromise
    timeoutId,        \* the global timer: unarmed, armed, fired, cleared
    caught,           \* what init() handed to settleOk / settleError
    lastMsg,          \* history: the last message event delivered to win
    loadTimeoutMs,    \* the closure constant loadTimeoutMs
    handshakeTimeoutMs, \* the closure constant handshakeTimeoutMs
    negotiations,     \* history: number of init() runs started on the window
    result,           \* history: the last call of the page and its outcome
    writable,         \* the window lets its cadesplugin property be assigned
    currentLogLevel,  \* the closure variable currentLogLevel
    logged,           \* history: the calls of the logger, [level, message]
    spawn,            \* the run of async_spawn: generator, promise, calls made
    client,           \* the client of createCadesPluginClient: its ready promise
    util,             \* history: the last call of a function of the utils module
    ext,              \* the calls of get_extension_version / get_extension_id
    twin              \* a second run of the negotiation, given the same events

vars == <<pc, urls, idx, scripts, cspListening, violations, lastCspViolation,
          lastLoadError, loadedUrl, bridge, posted, origin, echoListener,
          handshakeTimer, nativeCalls, nativePromise, pluginObject, facade,
          settled, state, reason, timeoutId, caught, lastMsg,
          loadTimeoutMs, handshakeTimeoutMs, negotiations, result, writable,
          currentLogLevel, logged, spawn, client, util, ext, twin>>

\* The variables of the handshake: the negotiation, the window and the
\* closure variables pluginObject and settled.
handshakeVars ==
    <<pc, urls, idx, scripts, cspListening, violations, lastCspViolation,
      lastLoadError, loadedUrl, bridge, posted, origin, echoListener,
      handshakeTimer, nativeCalls, nativePromise, pluginObject, facade,
      settled, state, reason, timeoutId, caught, lastMsg>>

\* The variables only installCadesPlugin and the calls of the page write.
callVars ==
    <<loadTimeoutMs, handshakeTimeoutMs, negotiations, result, writable,
      currentLogLevel, logged, spawn, client, util, ext, twin>>

(***************************************************************************)
(* Bounds of the model.                                                    *)
(***************************************************************************)
MaxUrls == 3
MaxViolations == 1

(***************************************************************************)
(* Values.                                                                 *)
(***************************************************************************)
Undefined == "undefined"
Null == ""

DefaultLoadTimeoutMs == 20000
HandshakeCeilingMs == 5000

UrlPool == <<"chrome-extension://a/nmcades_plugin_api.js",
             "chrome-extension://b/nmcades_plugin_api.js",
             "chrome-extension://c/nmcades_plugin_api.js",
             "chrome-extension://d/nmcades_plugin_api.js",
             "chrome-extension://e/nmcades_plugin_api.js">>

\* Candidate lists: n distinct URLs in order, and one list that repeats a URL.
CandidateLists ==
    { SubSeq(UrlPool, 1, n) : n \in 1..MaxUrls } \cup { <<UrlPool[1], UrlPool[1]>> }

PageOrigin == "https://page.example"
ForeignOrigin == "https://evil.example"

NoViolation == [blockedURI |-> "", effectiveDirective |-> "", violatedDirective |-> ""]

\* blockedURI values of the security-policy-violation events of the environment.
BlockedUris == {""} \cup { UrlPool[i] : i \in 1..MaxUrls } \cup {"https://cdn.example/x.js"}

\* Message events the window can receive: [source, origin, data].  data is a
\* JavaScript value: its typeof and, for a string, its text.
Str(text) == [typeof |-> "string", value |-> text]
Num(text) == [typeof |-> "number", value |-> text]

Messages ==
    { [source |-> "win",   origin |-> PageOrigin,    data |-> Str("cadesplugin_loaded")],
      [source |-> "win",   origin |-> PageOrigin,    data |-> Str("{\"type\":\"cadesplugin_loaded\"}")],
      [source |-> "frame", origin |-> PageOrigin,    data |-> Str("cadesplugin_loaded")],
      [source |-> "win",   origin |-> ForeignOrigin, data |-> Str("cadesplugin_loaded")],
      [source |-> "win",   origin |-> PageOrigin,    data |-> Str("cadesplugin_loading")],
      [source |-> "win",   origin |-> PageOrigin,    data |-> Str("cadesplugin_echo_request")],
      [source |-> "win",   origin |-> PageOrigin,    data |-> Num("123")] }

NoMsg == [source |-> "", origin |-> "", data |-> Str("")]

\* Values the native-host check reports to its failure callback or throws.
NativeErrors == {"native host is not installed", Undefined}

\* Values the extension passes to set(): null, an object without
\* CreateObjectAsync, an object providing it.
PluginObjects == {"null", "objWithoutCreateObjectAsync", "objWithCreateObjectAsync"}

\* JavaScript values of the option fields and of the page global: the typeof
\* tag, a number (special names NaN and the infinities), the entries of an
\* array.  null is the object that is no object.
JsUndefined == [typeof |-> "undefined", special |-> "", num |-> 0, items |-> <<>>]
JsNull == [typeof |-> "object", special |-> "null", num |-> 0, items |-> <<>>]
JsNumber(n) == [typeof |-> "number", special |-> "", num |-> n, items |-> <<>>]
JsNaN == [typeof |-> "number", special |-> "NaN", num |-> 0, items |-> <<>>]
JsInfinity == [typeof |-> "number", special |-> "Infinity", num |-> 0, items |-> <<>>]
JsNegInfinity == [typeof |-> "number", special |-> "-Infinity", num |-> 0, items |-> <<>>]
JsArray(items) == [typeof |-> "array", special |-> "", num |-> 0, items |-> items]

\* cadesplugin_api.utils: CRYPTOPRO_EXTENSION_IDS
CRYPTOPRO_EXTENSION_IDS ==
    [opera |-> "epebfcehmdedogndhlcacafjaacknbcm",
     manifestV2 |-> "iifchhfnnmpdbibifmljnfjhpififfog",
     manifestV3 |-> "pfhgbfnnjiafkhfdkmpiflachepdcjod"]

\* The log levels: LOG_LEVEL_ERROR, LOG_LEVEL_INFO, LOG_LEVEL_DEBUG.
LOG_LEVEL_ERROR == 1
LOG_LEVEL_INFO == 2
LOG_LEVEL_DEBUG == 4

(***************************************************************************)
(* Pure helpers.                                                           *)
(***************************************************************************)
\* String.prototype.includes
includes(text, needle) ==
    \E i \in 1..(Len(text) + 1 - Len(needle)) : SubSeq(text, i, i + Len(needle) - 1) = needle

\* cadesplugin_api.utils: typeof data === 'string' && data.includes('cadesplugin_loaded')
isCadesPluginLoadedMessage(data) ==
    data.typeof = "string" /\ includes(data.value, "cadesplugin_loaded")

\* A predicate that does not look at the source of the event.
echoPredicateAnySource(event) ==
    IF origin # Null /\ event.origin # origin THEN FALSE
    ELSE isCadesPluginLoadedMessage(event.data)

\* The predicate init hands to waitForMessage.
echoPredicate(event) ==
    IF event.source # "win" THEN FALSE
    ELSE IF origin # Null /\ event.origin # origin THEN FALSE
    ELSE isCadesPluginLoadedMessage(event.data)

\* A lookup that returns the first recorded violation whatever its blockedURI.
findAnyViolation(uri) ==
    IF violations # <<>> THEN violations[1] ELSE NoViolation

\* findByBlockedUri: the first recorded violation with that blockedURI, or null.
findByBlockedUri(uri) ==
    IF \E i \in 1..Len(violations) : violations[i].blockedURI = uri
    THEN violations[CHOOSE i \in 1..Len(violations) :
                      /\ violations[i].blockedURI = uri
                      /\ \A j \in 1..(i - 1) : violations[j].blockedURI # uri]
    ELSE NoViolation

\* A check that only asks whether some object was published.
hasSomeObject(obj) == obj # "null"

\* pluginObject?.CreateObjectAsync is truthy
hasCreateObjectAsync(obj) == obj = "objWithCreateObjectAsync"

\* A CadesPluginError: code, the details bag, the cause.
cadesError(code, details, cause) ==
    [kind |-> "CadesPluginError", name |-> "CadesPluginError", code |-> code,
     details |-> details, cause |-> cause]

\* The details bag with every key the library writes; invalidField and
\* invalidValue stand for the one key { <field>: <raw value> } of an
\* INVALID_OPTIONS error.
NoDetails == [timeoutMs |-> 0, loadedUrl |-> Null, attemptedUrls |-> <<>>,
              cspViolation |-> NoViolation, name |-> Null,
              invalidField |-> Null, invalidValue |-> JsUndefined]
NoReason == [kind |-> Null, name |-> Null, code |-> Null, details |-> NoDetails,
             cause |-> Undefined]

\* A value that is no CadesPluginError: an Error (kind "Error") with its name,
\* or any other value (kind "value"); its text identifies it.
Thrown(kind, name, text) ==
    [kind |-> kind, name |-> name, code |-> Null, details |-> NoDetails, cause |-> text]

\* What win.postMessage can throw in a window that does not provide it.
PostFailures ==
    {Thrown("Error", "TypeError", "win.postMessage is not a function"),
     Thrown("value", Null, "postMessage refused")}

\* The rejection of the native-host check left to settleError's generic wrap.
nativeFailureUnwrapped(loaded, e) ==
    cadesError("UNKNOWN", NoDetails, e)

\* The .catch after the native-host check: NATIVE_HOST_HANDSHAKE_FAILED with
\* the reported value as cause.
nativeFailure(loaded, e) ==
    cadesError("NATIVE_HOST_HANDSHAKE_FAILED", [NoDetails EXCEPT !.loadedUrl = loaded], e)

loadFailedMessage(src) == "Failed to load script: " \o src

\* A clearTimeout that leaves the timer armed.
clearTimeoutKeeps(timer) == timer

\* win.clearTimeout(timer): an armed timer will not fire; a timer that fired or
\* was cleared stays as it is.
clearTimeout(timer) == IF timer = "armed" THEN "cleared" ELSE timer

\* A cleanup that leaves the message listener registered.
leakEventListener(registered) == registered

\* win.removeEventListener('message', handler) in waitForMessage's cleanup
removeEventListener(registered) == FALSE

\* A loop that gives up at a candidate for which a violation was recorded.
hasNextUnlessBlocked(candidates, i) ==
    i < Len(candidates) /\ findByBlockedUri(candidates[i]) = NoViolation

\* for (const url of urls): another candidate follows the i-th.
hasNext(candidates, i) == i < Len(candidates)

\* A stop() that leaves the securitypolicyviolation listener registered.
cspStopLeaks(registered) == registered

\* csp.stop(): doc.removeEventListener('securitypolicyviolation', handler)
cspStop(registered) == FALSE

\* The first candidate instead of the one that loaded.
firstCandidate(candidates, i) == candidates[1]

\* loadedUrl = url: the candidate whose load resolved
winningUrl(candidates, i) == candidates[i]

\* An entry-point check that never fails.
apiNeverMissing(hasApi) == FALSE

\* !api?.check_chrome_plugin
apiMissing(hasApi) == ~hasApi

(***************************************************************************)
(* Option handling: the string and number functions the validation of      *)
(* installCadesPlugin relies on, computed character by character.          *)
(***************************************************************************)
LowerLetters == "abcdefghijklmnopqrstuvwxyz"
UpperLetters == "ABCDEFGHIJKLMNOPQRSTUVWXYZ"
DigitChars == "0123456789"
Whitespace == {" ", "\t", "\n"}

\* The character at position i of a string, as a string of length one.
charAt(text, i) == SubSeq(text, i, i)

\* String.prototype.startsWith
startsWith(text, prefix) ==
    Len(text) >= Len(prefix) /\ SubSeq(text, 1, Len(prefix)) = prefix

\* String.prototype.trim
RECURSIVE trimStart(_)
trimStart(text) ==
    IF Len(text) > 0 /\ charAt(text, 1) \in Whitespace
    THEN trimStart(SubSeq(text, 2, Len(text)))
    ELSE text

RECURSIVE trimEnd(_)
trimEnd(text) ==
    IF Len(text) > 0 /\ charAt(text, Len(text)) \in Whitespace
    THEN trimEnd(SubSeq(text, 1, Len(text) - 1))
    ELSE text

trim(text) == trimEnd(trimStart(text))

\* A character left as it is.
keepChar(c) == c

\* String.prototype.toLowerCase, one character and a whole string.
toLowerChar(c) ==
    IF \E k \in 1..Len(UpperLetters) : charAt(UpperLetters, k) = c
    THEN charAt(LowerLetters, CHOOSE k \in 1..Len(UpperLetters) : charAt(UpperLetters, k) = c)
    ELSE c

RECURSIVE toLowerCase(_)
toLowerCase(text) ==
    IF Len(text) = 0 THEN ""
    ELSE toLowerChar(charAt(text, 1)) \o toLowerCase(SubSeq(text, 2, Len(text)))

\* /^[a-p]{32}$/i
isExtensionId(id) ==
    /\ Len(id) = 32
    /\ \A i \in 1..32 : includes("abcdefghijklmnop" \o "ABCDEFGHIJKLMNOP", charAt(id, i))

\* Number(value) for a value that is no number: undefined gives NaN, null
\* gives 0 (the non-numbers of this model are undefined and null).
Number(value) ==
    IF value = JsNull THEN JsNumber(0) ELSE JsNaN

\* Number.isFinite
isFinite(n) == n.typeof = "number" /\ n.special = ""

\* A toFinitePositiveMs that lets zero through.
toFiniteNonNegativeMs(value) ==
    LET n == IF value.typeof = "number" THEN value ELSE Number(value)
    IN  IF ~isFinite(n) \/ n.num < 0 THEN JsNull ELSE n

\* toFinitePositiveMs: the number, or null.
toFinitePositiveMs(value) ==
    LET n == IF value.typeof = "number" THEN value ELSE Number(value)
    IN  IF ~isFinite(n) \/ n.num <= 0 THEN JsNull ELSE n

\* A URL built without the name of the script.
buildExtensionRootUrl(id) ==
    "chrome-extension://" \o id

buildExtensionApiUrlFromId(id) ==
    "chrome-extension://" \o id \o "/nmcades_plugin_api.js"

\* normalizeExtensionIds: entries that are no string, empty after trim or not
\* of the extension-id shape are skipped; the others are kept in lowercase.
RECURSIVE normalizeExtensionIds(_)
normalizeExtensionIds(ids) ==
    IF Len(ids) = 0 THEN <<>>
    ELSE LET raw == Head(ids)
             id == trim(raw.value)
             rest == normalizeExtensionIds(Tail(ids))
         IN  IF raw.typeof # "string" THEN rest
             ELSE IF id = "" THEN rest
             ELSE IF ~isExtensionId(id) THEN rest
             ELSE <<toLowerCase(id)>> \o rest

\* normalizeExtensionApiUrls: entries that are no string, empty after trim or
\* without the chrome-extension:// prefix are skipped.
RECURSIVE normalizeExtensionApiUrls(_)
normalizeExtensionApiUrls(list) ==
    IF Len(list) = 0 THEN <<>>
    ELSE LET raw == Head(list)
             url == trim(raw.value)
             rest == normalizeExtensionApiUrls(Tail(list))
         IN  IF raw.typeof # "string" THEN rest
             ELSE IF url = "" THEN rest
             ELSE IF ~startsWith(url, "chrome-extension://") THEN rest
             ELSE <<url>> \o rest

\* /\bName\/(\d+)/ : the token at a word boundary, followed by a digit.
isWordChar(c) == includes(LowerLetters \o UpperLetters \o DigitChars \o "_", c)

matchesVersionToken(ua, token) ==
    \E i \in 1..Len(ua) :
        /\ i + Len(token) <= Len(ua)
        /\ SubSeq(ua, i, i + Len(token) - 1) = token
        /\ includes(DigitChars, charAt(ua, i + Len(token)))
        /\ (i = 1 \/ ~isWordChar(charAt(ua, i - 1)))

\* The position of the leftmost match of the pattern of a token.
matchIndex(ua, token) ==
    CHOOSE i \in 1..Len(ua) :
        /\ i + Len(token) <= Len(ua)
        /\ SubSeq(ua, i, i + Len(token) - 1) = token
        /\ includes(DigitChars, charAt(ua, i + Len(token)))
        /\ (i = 1 \/ ~isWordChar(charAt(ua, i - 1)))
        /\ \A j \in 1..(i - 1) :
              ~ /\ j + Len(token) <= Len(ua)
                /\ SubSeq(ua, j, j + Len(token) - 1) = token
                /\ includes(DigitChars, charAt(ua, j + Len(token)))
                /\ (j = 1 \/ ~isWordChar(charAt(ua, j - 1)))

\* (\d+): the digits from position i on, as many as there are.
RECURSIVE digitsAt(_, _)
digitsAt(ua, i) ==
    IF i <= Len(ua) /\ includes(DigitChars, charAt(ua, i))
    THEN charAt(ua, i) \o digitsAt(ua, i + 1)
    ELSE ""

\* Number(match[1]) for a string of decimal digits.
RECURSIVE numberOfDigits(_)
numberOfDigits(digits) ==
    IF digits = "" THEN 0
    ELSE LET last == charAt(digits, Len(digits))
             d == CHOOSE k \in 0..9 : charAt(DigitChars, k + 1) = last
         IN  10 * numberOfDigits(SubSeq(digits, 1, Len(digits) - 1)) + d

\* The patterns of detectBrowser in the order they are tried.
BrowserPatterns ==
    <<[name |-> "Edg", token |-> "Edg/"],
      [name |-> "Opera", token |-> "OPR/"],
      [name |-> "YaBrowser", token |-> "YaBrowser/"],
      [name |-> "Chrome", token |-> "Chrome/"]>>

\* The loop of detectBrowser over the patterns from the k-th on: the first
\* pattern that matches gives the name and the number after its token (a
\* number of digits is finite up to some three hundred digits, far beyond
\* the user agents followed here).
RECURSIVE detectFrom(_, _, _)
detectFrom(patterns, k, ua) ==
    IF k > Len(patterns) THEN [name |-> "Other", major |-> JsNull]
    ELSE IF ~matchesVersionToken(ua, patterns[k].token) THEN detectFrom(patterns, k + 1, ua)
    ELSE [name |-> patterns[k].name,
          major |-> JsNumber(numberOfDigits(
                        digitsAt(ua, matchIndex(ua, patterns[k].token)
                                     + Len(patterns[k].token))))]

\* A detectBrowser that tries Chrome first.
detectBrowserChromeFirst(userAgent) ==
    detectFrom(<<BrowserPatterns[4], BrowserPatterns[1], BrowserPatterns[2],
                 BrowserPatterns[3]>>, 1, userAgent)

\* detectBrowser
detectBrowser(userAgent) == detectFrom(BrowserPatterns, 1, userAgent)

\* The store identifiers for every browser family.
buildStoreExtensionApiUrls(browser) ==
    <<buildExtensionApiUrlFromId(CRYPTOPRO_EXTENSION_IDS.manifestV2),
      buildExtensionApiUrlFromId(CRYPTOPRO_EXTENSION_IDS.manifestV3)>>

\* buildCryptoProExtensionApiUrls
buildCryptoProExtensionApiUrls(browser) ==
    IF browser.name = "Opera" \/ browser.name = "YaBrowser"
    THEN <<buildExtensionApiUrlFromId(CRYPTOPRO_EXTENSION_IDS.opera),
           buildExtensionApiUrlFromId(CRYPTOPRO_EXTENSION_IDS.manifestV2),
           buildExtensionApiUrlFromId(CRYPTOPRO_EXTENSION_IDS.manifestV3)>>
    ELSE <<buildExtensionApiUrlFromId(CRYPTOPRO_EXTENSION_IDS.manifestV2),
           buildExtensionApiUrlFromId(CRYPTOPRO_EXTENSION_IDS.manifestV3)>>

\* The options object: every field is a JavaScript value, undefined when the
\* caller left it out.
NoOptions ==
    [timeoutMs |-> JsUndefined, handshakeTimeoutMs |-> JsUndefined,
     extensionApiUrls |-> JsUndefined, extensionIds |-> JsUndefined,
     logLevel |-> JsUndefined]

\* A value handed to getLastError: its typeof, whether it is an object with
\* a message property and that property, its text when it is a string, and
\* what JSON.stringify makes of it (a text, undefined, or a TypeError).
Exception(typeof, hasMessage, message, text, json) ==
    [typeof |-> typeof, hasMessage |-> hasMessage, message |-> message, text |-> text,
     json |-> json]

NoException ==
    Exception("undefined", FALSE, [typeof |-> "undefined", value |-> ""], "", "undefined")

\* What a lookup on the bridge or on the plugin object finds at a call: no
\* entry point, one that returns a value, one that throws.
NoEntryPoint == [st |-> "absent", value |-> [typeof |-> "undefined", value |-> ""]]

\* The record of a call of the page: the operation, its arguments, how it
\* ended, the error it threw, the name it passed on to
\* pluginObject.CreateObjectAsync, for a facade made by the call the number of
\* the negotiation behind it, the value it returned, the error it caught
\* and dropped and the entry point it found.
NoResult ==
    [op |-> Null, opts |-> NoOptions, globalTimeout |-> JsUndefined, userAgent |-> Null,
     name |-> Null, outcome |-> Null, error |-> NoReason, passed |-> Null, run |-> 0,
     arg |-> JsUndefined, returned |-> Null, ignored |-> NoReason,
     exception |-> NoException, native |-> NoEntryPoint]

supplied(value) == value.typeof # "undefined"

\* timeoutMsOpt, handshakeTimeoutMsOpt: the number, or null.
timeoutMsOpt(opts) ==
    IF supplied(opts.timeoutMs) THEN toFinitePositiveMs(opts.timeoutMs) ELSE JsNull

handshakeTimeoutMsOpt(opts) ==
    IF supplied(opts.handshakeTimeoutMs)
    THEN toFinitePositiveMs(opts.handshakeTimeoutMs)
    ELSE JsNull

\* extensionApiUrlsOpt, extensionIdsOpt: the normalized list, or null, which is
\* written <<>> (a supplied list that normalizes to nothing is thrown out by
\* the validation, so no list that reaches init() is empty).
extensionApiUrlsOpt(opts) ==
    IF supplied(opts.extensionApiUrls)
    THEN normalizeExtensionApiUrls(opts.extensionApiUrls.items)
    ELSE <<>>

extensionIdsOpt(opts) ==
    IF supplied(opts.extensionIds)
    THEN normalizeExtensionIds(opts.extensionIds.items)
    ELSE <<>>

\* A default of LOG_LEVEL_INFO.
initialLogLevelInfo(opts) ==
    IF supplied(opts.logLevel) THEN opts.logLevel ELSE JsNumber(LOG_LEVEL_INFO)

\* opts.logLevel ?? LOG_LEVEL_ERROR
initialLogLevelRaw(opts) ==
    IF supplied(opts.logLevel) THEN opts.logLevel ELSE JsNumber(LOG_LEVEL_ERROR)

\* A check that lets every supplied list through.
neverEmptyOverride(given, normalized) == FALSE

\* opts.<list> !== undefined && (!<list>Opt || <list>Opt.length === 0)
emptyOverride(given, normalized) == supplied(given) /\ Len(normalized) = 0

invalidOptions(field, raw) ==
    cadesError("INVALID_OPTIONS",
               [NoDetails EXCEPT !.invalidField = field, !.invalidValue = raw],
               Undefined)

\* The checks of installCadesPlugin in their order: the error of the first
\* check that fails, or none.
optionsError(opts) ==
    IF supplied(opts.timeoutMs) /\ timeoutMsOpt(opts) = JsNull
    THEN invalidOptions("timeoutMs", opts.timeoutMs)
    ELSE IF supplied(opts.handshakeTimeoutMs) /\ handshakeTimeoutMsOpt(opts) = JsNull
    THEN invalidOptions("handshakeTimeoutMs", opts.handshakeTimeoutMs)
    ELSE IF emptyOverride(opts.extensionApiUrls, extensionApiUrlsOpt(opts))
    THEN invalidOptions("extensionApiUrls", opts.extensionApiUrls)
    ELSE IF emptyOverride(opts.extensionIds, extensionIdsOpt(opts))
    THEN invalidOptions("extensionIds", opts.extensionIds)
    ELSE IF initialLogLevelRaw(opts) \notin
               {JsNumber(LOG_LEVEL_DEBUG), JsNumber(LOG_LEVEL_INFO), JsNumber(LOG_LEVEL_ERROR)}
    THEN invalidOptions("logLevel", initialLogLevelRaw(opts))
    ELSE NoReason

\* A choice of urls that prefers the identifier override.
candidateUrlsIdsFirst(opts, userAgent) ==
    IF Len(extensionIdsOpt(opts)) > 0
    THEN [i \in 1..Len(extensionIdsOpt(opts)) |->
              buildExtensionApiUrlFromId(extensionIdsOpt(opts)[i])]
    ELSE IF Len(extensionApiUrlsOpt(opts)) > 0
    THEN extensionApiUrlsOpt(opts)
    ELSE buildCryptoProExtensionApiUrls(detectBrowser(userAgent))

\* init's urls: the URL override, else the URLs built from the identifier
\* override, else the list for the detected browser.
candidateUrls(opts, userAgent) ==
    IF Len(extensionApiUrlsOpt(opts)) > 0
    THEN extensionApiUrlsOpt(opts)
    ELSE IF Len(extensionIdsOpt(opts)) > 0
    THEN [i \in 1..Len(extensionIdsOpt(opts)) |->
              buildExtensionApiUrlFromId(extensionIdsOpt(opts)[i])]
    ELSE buildCryptoProExtensionApiUrls(detectBrowser(userAgent))

\* A resolution that prefers the page global to the caller's timeoutMs.
resolveLoadTimeoutMsGlobalFirst(opts, globalTimeout) ==
    IF toFinitePositiveMs(globalTimeout) # JsNull THEN toFinitePositiveMs(globalTimeout).num
    ELSE IF timeoutMsOpt(opts) # JsNull THEN timeoutMsOpt(opts).num
    ELSE DefaultLoadTimeoutMs

\* timeoutMsOpt ?? loadTimeoutMsFromWindow ?? 20_000
resolveLoadTimeoutMs(opts, globalTimeout) ==
    IF timeoutMsOpt(opts) # JsNull THEN timeoutMsOpt(opts).num
    ELSE IF toFinitePositiveMs(globalTimeout) # JsNull THEN toFinitePositiveMs(globalTimeout).num
    ELSE DefaultLoadTimeoutMs

\* Math.min
min(a, b) == IF a < b THEN a ELSE b

\* handshakeTimeoutMsOpt ?? Math.min(5_000, loadTimeoutMs)
resolveHandshakeTimeoutMs(opts, loadMs) ==
    IF handshakeTimeoutMsOpt(opts) # JsNull THEN handshakeTimeoutMsOpt(opts).num
    ELSE min(HandshakeCeilingMs, loadMs)

(***************************************************************************)
(* Settlement.                                                             *)
(***************************************************************************)
\* The resolve / reject functions of initPromise: a promise settles once.
resolveInit ==
    IF state = "pending"
    THEN state' = "resolved" /\ UNCHANGED reason
    ELSE UNCHANGED <<state, reason>>

rejectInit(r) ==
    IF state = "pending"
    THEN state' = "rejected" /\ reason' = r
    ELSE UNCHANGED <<state, reason>>

resolveOnce ==
    IF settled
    THEN UNCHANGED <<settled, state, reason>>
    ELSE settled' = TRUE /\ resolveInit

\* rejectOnce without the settled check, writing the outcome directly.
rejectOnceOverwrite(r) ==
    settled' = TRUE /\ state' = "rejected" /\ reason' = r

rejectOnce(r) ==
    IF settled
    THEN UNCHANGED <<settled, state, reason>>
    ELSE settled' = TRUE /\ rejectInit(r)

settleOk ==
    /\ timeoutId' = clearTimeout(timeoutId)
    /\ resolveOnce

\* settleError that rejects without going through rejectOnce.
settleErrorForce(error) ==
    /\ timeoutId' = clearTimeout(timeoutId)
    /\ settled' = TRUE
    /\ state' = "rejected"
    /\ reason' = error

\* A settleError that hands on whatever it was given.
settleErrorUnwrapped(error) ==
    /\ timeoutId' = clearTimeout(timeoutId)
    /\ rejectOnce(error)

\* A thrown value that is no CadesPluginError is wrapped as UNKNOWN with the
\* value as cause (a raw value carries its own text in its cause field); the
\* name of an Error goes into the details.
settleError(error) ==
    /\ timeoutId' = clearTimeout(timeoutId)
    /\ IF error.kind = "CadesPluginError"
       THEN rejectOnce(error)
       ELSE IF error.kind = "Error"
       THEN rejectOnce(cadesError("UNKNOWN", [NoDetails EXCEPT !.name = error.name], error.cause))
       ELSE rejectOnce(cadesError("UNKNOWN", NoDetails, error.cause))

\* The end of init(): the success path calls settleOk, the catch clause
\* hands whatever was thrown to settleError.
initReturns ==
    /\ pc' = "done"
    /\ caught' = [NoReason EXCEPT !.kind = "ok"]
    /\ settleOk

initThrows(error) ==
    /\ pc' = "done"
    /\ caught' = error
    /\ settleError(error)

\* Nothing yielded yet: no awaitable the run waits for.
NoAwaited == [kind |-> "plain", fate |-> "fulfil", value |-> Undefined, settled |-> FALSE]

\* No run of async_spawn: no generator, no promise.
NoSpawn ==
    [st |-> "none", program |-> <<>>, args |-> <<>>, params |-> <<>>, at |-> 0,
     calls |-> <<>>, awaited |-> NoAwaited, value |-> Undefined]

\* No call of a function of the utils module.
NoUtil ==
    [fn |-> Null, userAgent |-> "", data |-> Str(""), prefix |-> "",
     name |-> Null, major |-> JsNull, accepted |-> FALSE, isNull |-> TRUE, text |-> ""]

\* No second run.
NoTwin == [turn |-> "off"]

\* No client: createCadesPluginClient was not called.
NoClient == [made |-> FALSE, ready |-> "pending", reason |-> NoReason, init |-> "none"]

(***************************************************************************)
(* Initial state: the page before installCadesPlugin is called.            *)
(***************************************************************************)
Init ==
    /\ pc = "idle"
    /\ urls = <<>>
    /\ idx = 0
    /\ scripts = <<>>
    /\ cspListening = FALSE
    /\ violations = <<>>
    /\ lastCspViolation = NoViolation
    /\ lastLoadError = Null
    /\ loadedUrl = Null
    /\ bridge = FALSE
    /\ posted = <<>>
    /\ origin = Null
    /\ echoListener = FALSE
    /\ handshakeTimer = "unarmed"
    /\ nativeCalls = 0
    /\ nativePromise = [st |-> "none", value |-> Undefined, via |-> Null]
    /\ pluginObject = "null"
    /\ facade = FALSE
    /\ settled = FALSE
    /\ state = "pending"
    /\ reason = NoReason
    /\ timeoutId = "unarmed"
    /\ caught = NoReason
    /\ lastMsg = NoMsg
    /\ loadTimeoutMs = 0
    /\ handshakeTimeoutMs = 0
    /\ negotiations = 0
    /\ result = NoResult
    /\ writable \in BOOLEAN
    /\ currentLogLevel = JsUndefined
    /\ logged = <<>>
    /\ spawn = NoSpawn
    /\ client = NoClient
    /\ util = NoUtil
    /\ ext = <<>>
    /\ twin = NoTwin

\* A task can run only when no promise continuation is waiting to run.
MicrotaskPending == pc = "native" /\ nativePromise.st \in {"resolved", "rejected"}

\* The value of a log level in a comparison: Number(level).
levelNumber(level) == IF level.typeof = "number" THEN level ELSE Number(level)

\* level > currentLogLevel, for one of the three levels and whatever
\* currentLogLevel holds: false against NaN.
aboveLogLevel(level, current) ==
    LET n == levelNumber(current)
    IN  IF n.special = "NaN" THEN FALSE
        ELSE IF n.special = "Infinity" THEN FALSE
        ELSE IF n.special = "-Infinity" THEN TRUE
        ELSE level > n.num

\* cpcsp_console_log(level, msg) for a string msg, with currentLogLevel as it
\* is at the call: the calls of the logger after it.  The logger takes the
\* call and returns.
cpcsp_console_log(level, msg, current, log) ==
    IF aboveLogLevel(level, current) THEN log
    ELSE Append(log, [level |-> IF level = LOG_LEVEL_DEBUG THEN "debug"
                                ELSE IF level = LOG_LEVEL_INFO THEN "info" ELSE "error",
                      message |-> msg])

\* `Loading CryptoPro extension API script: ${url}`
loadingMessage(url) == "Loading CryptoPro extension API script: " \o url

\* doc.createElement('script') with the attributes loadScript gives it and
\* both handlers set; st tells what became of the element: "loading" (in the
\* document, no signal yet), "loaded" (in the document), "removed" (taken
\* out of the document) or "failed" (errored, and remove() threw).
scriptElement(src) ==
    [src |-> src, type |-> "text/javascript", async |-> TRUE, defer |-> TRUE,
     handlers |-> TRUE, st |-> "loading"]

\* loadScript: one script element, appended to the document head.
loadScript(doc, src) == Append(doc, scriptElement(src))

\* cleanup(): script.onload = null; script.onerror = null
scriptCleanup(el) == [el EXCEPT !.handlers = FALSE]

\* script.onload: cleanup and resolve; the element stays.
onload(el) == [scriptCleanup(el) EXCEPT !.st = "loaded"]

\* An onerror that leaves the element in the document.
onerrorKeeps(el, removeThrows) == [scriptCleanup(el) EXCEPT !.st = "failed"]

\* script.onerror: cleanup, script.remove() with whatever it throws ignored,
\* and reject.
onerror(el, removeThrows) ==
    [scriptCleanup(el) EXCEPT !.st = IF removeThrows THEN "failed" ELSE "removed"]

\* An assignment that leaves win.cadesplugin as it was on every window.
publishNothing(present) == present

\* try { win.cadesplugin = cadesplugin } catch {}: the window holds the facade
\* afterwards, unless the assignment threw, which is ignored.
publishFacade(present) == IF writable THEN TRUE ELSE present

(***************************************************************************)
(* The part of installCadesPlugin behind the entry guard and the           *)
(* validation: a fresh closure (pluginObject, settled, initPromise), the   *)
(* facade published as win.cadesplugin where the window allows it, the     *)
(* timeouts resolved, the global timer armed and init() run up to its      *)
(* first await: the CSP recorder is started and the first candidate is     *)
(* injected.  The locals of init() are those of this run.                  *)
(***************************************************************************)
Install(candidates, loadMs, handshakeMs, level) ==
    /\ pluginObject' = "null"
    /\ currentLogLevel' = level
    /\ logged' = cpcsp_console_log(LOG_LEVEL_DEBUG, loadingMessage(candidates[1]), level, logged)
    /\ settled' = FALSE
    /\ state' = "pending"
    /\ reason' = NoReason
    /\ facade' = publishFacade(facade)
    /\ loadTimeoutMs' = loadMs
    /\ handshakeTimeoutMs' = handshakeMs
    /\ timeoutId' = "armed"
    /\ negotiations' = negotiations + 1
    /\ urls' = candidates
    /\ loadedUrl' = Null
    /\ lastLoadError' = Null
    /\ lastCspViolation' = NoViolation
    /\ violations' = <<>>
    /\ cspListening' = TRUE
    /\ idx' = 1
    /\ scripts' = loadScript(scripts, candidates[1])
    /\ pc' = "loading"
    /\ caught' = NoReason
    /\ origin' = Null
    /\ handshakeTimer' = "unarmed"
    /\ nativePromise' = [st |-> "none", value |-> Undefined, via |-> Null]
    /\ UNCHANGED <<bridge, posted, echoListener, nativeCalls, lastMsg, writable, spawn, util, ext, twin>>

\* An entry guard that finds no facade on any window.
noExistingFacade(present) == FALSE

\* The entry guard: win.cadesplugin holds an object with then,
\* CreateObjectAsync and async_spawn functions.
existingFacade(present) == present

(***************************************************************************)
(* installCadesPlugin(win, doc, options) on a window whose                 *)
(* cadesplugin_load_timeout and navigator.userAgent are given: the         *)
(* existing facade is returned, or the first failing check throws, or the  *)
(* negotiation is started and the new facade returned.                     *)
(***************************************************************************)
callInstallCadesPlugin(opts, globalTimeout, userAgent) ==
    LET call == [NoResult EXCEPT !.op = "installCadesPlugin", !.opts = opts,
                                 !.globalTimeout = globalTimeout, !.userAgent = userAgent]
        idle == <<pc, urls, idx, scripts, cspListening, violations, lastCspViolation,
                  lastLoadError, loadedUrl, bridge, posted, origin, echoListener,
                  handshakeTimer, nativeCalls, nativePromise, pluginObject, facade,
                  settled, state, reason, timeoutId, caught, lastMsg,
                  loadTimeoutMs, handshakeTimeoutMs, negotiations, writable,
                  currentLogLevel, logged, spawn, util, ext, twin>>
    IN  IF existingFacade(facade)
        THEN /\ result' = [call EXCEPT !.outcome = "existing"]
             /\ UNCHANGED idle
        ELSE IF optionsError(opts) # NoReason
        THEN /\ result' = [call EXCEPT !.outcome = "threw", !.error = optionsError(opts)]
             /\ UNCHANGED idle
        ELSE /\ result' = [call EXCEPT !.outcome = "installed", !.run = negotiations + 1]
             /\ Install(candidateUrls(opts, userAgent),
                        resolveLoadTimeoutMs(opts, globalTimeout),
                        resolveHandshakeTimeoutMs(opts, resolveLoadTimeoutMs(opts, globalTimeout)),
                        initialLogLevelRaw(opts))

\* installCadesPlugin called by the page itself.
installCadesPlugin(opts, globalTimeout, userAgent) ==
    /\ callInstallCadesPlugin(opts, globalTimeout, userAgent)
    /\ UNCHANGED client

(***************************************************************************)
(* script.onload of the candidate in flight.  The script may or may not    *)
(* have published cpcsp_chrome_nmcades.check_chrome_plugin.  init()        *)
(* leaves the loop, stops the recorder, checks the entry point, posts the  *)
(* echo request (which throws in a window without postMessage) and starts  *)
(* waitForMessage.                                                         *)
(***************************************************************************)
ScriptLoaded(hasApi, pageOrigin, post) ==
    /\ pc = "loading"
    /\ ~MicrotaskPending
    /\ scripts' = [scripts EXCEPT ![Len(scripts)] = onload(scripts[Len(scripts)])]
    /\ loadedUrl' = winningUrl(urls, idx)
    /\ cspListening' = cspStop(cspListening)
    /\ bridge' = hasApi
    /\ IF apiMissing(hasApi)
       THEN /\ initThrows(cadesError("EXTENSION_API_MISSING",
                                     [NoDetails EXCEPT !.loadedUrl = winningUrl(urls, idx)],
                                     Undefined))
            /\ post = NoReason
            /\ UNCHANGED <<posted, origin, echoListener, handshakeTimer>>
       ELSE IF post # NoReason
       THEN /\ initThrows(post)
            /\ UNCHANGED <<posted, origin, echoListener, handshakeTimer>>
       ELSE /\ posted' = Append(posted, "cadesplugin_echo_request")
            /\ origin' = pageOrigin
            /\ echoListener' = TRUE
            /\ handshakeTimer' = "armed"
            /\ pc' = "echo"
            /\ UNCHANGED <<settled, state, reason, timeoutId, caught>>
    /\ UNCHANGED <<urls, idx, violations, lastCspViolation, lastLoadError, nativeCalls,
                   nativePromise, pluginObject, facade, lastMsg>>
    /\ UNCHANGED callVars

(***************************************************************************)
(* script.onerror of the candidate in flight: the element is removed, the  *)
(* failure and a violation recorded for that URL are remembered, and the   *)
(* loop goes on to the next candidate, or ends with the recorder stopped   *)
(* and the load failure thrown.                                            *)
(***************************************************************************)
ScriptErrorWith(removeThrows) ==
    /\ pc = "loading"
    /\ ~MicrotaskPending
    /\ LET url == urls[idx]
           removed == [scripts EXCEPT ![Len(scripts)] =
                                         onerror(scripts[Len(scripts)], removeThrows)]
           found == findByBlockedUri(url)
           violation == IF found # NoViolation THEN found ELSE lastCspViolation
           code == IF violation # NoViolation THEN "CSP_BLOCKED" ELSE "EXTENSION_API_LOAD_FAILED"
       IN  /\ lastLoadError' = loadFailedMessage(url)
           /\ lastCspViolation' = violation
           /\ IF hasNext(urls, idx)
              THEN /\ idx' = idx + 1
                   /\ logged' = cpcsp_console_log(LOG_LEVEL_DEBUG, loadingMessage(urls[idx + 1]),
                                                  currentLogLevel, logged)
                   /\ scripts' = loadScript(removed, urls[idx + 1])
                   /\ UNCHANGED <<pc, cspListening, settled, state, reason, timeoutId, caught>>
              ELSE /\ scripts' = removed
                   /\ cspListening' = cspStop(cspListening)
                   /\ UNCHANGED logged
                   /\ initThrows(cadesError(code,
                                            [NoDetails EXCEPT !.attemptedUrls = urls,
                                                              !.cspViolation = violation],
                                            loadFailedMessage(url)))
                   /\ UNCHANGED idx
    /\ UNCHANGED <<urls, violations, loadedUrl, bridge, posted, origin, echoListener,
                   handshakeTimer, nativeCalls, nativePromise, pluginObject, facade, lastMsg>>
    /\ UNCHANGED <<loadTimeoutMs, handshakeTimeoutMs, negotiations, result, writable,
                   currentLogLevel, spawn, client, util, ext, twin>>

\* The error signal on a document whose elements can be removed.
ScriptError == ScriptErrorWith(FALSE)

(***************************************************************************)
(* A securitypolicyviolation event on the document while the recorder's    *)
(* listener is registered: recorded unless its blockedURI is empty.        *)
(***************************************************************************)
CspViolation(uri) ==
    /\ cspListening
    /\ ~MicrotaskPending
    /\ Len(violations) < MaxViolations
    /\ violations' =
          IF uri = "" THEN violations
          ELSE Append(violations, [blockedURI |-> uri,
                                   effectiveDirective |-> "script-src-elem",
                                   violatedDirective |-> "script-src-elem"])
    /\ UNCHANGED <<pc, urls, idx, scripts, cspListening, lastCspViolation, lastLoadError,
                   loadedUrl, bridge, posted, origin, echoListener, handshakeTimer,
                   nativeCalls, nativePromise, pluginObject, facade, settled, state,
                   reason, timeoutId, caught, lastMsg>>
    /\ UNCHANGED callVars

(***************************************************************************)
(* A message event on the window.  While waitForMessage listens and the    *)
(* predicate accepts the event, the wait is cleaned up and init() goes on  *)
(* to invoke check_chrome_plugin, which may call a callback or throw       *)
(* before it returns (sync), or return with both callbacks outstanding.    *)
(* Events that arrive before waitForMessage has registered its listener    *)
(* reach no handler of the negotiation and are left out.                   *)
(***************************************************************************)
SyncOutcomes ==
    {[st |-> "pending", value |-> Undefined, via |-> Null],
     [st |-> "resolved", value |-> Undefined, via |-> "callback"]}
    \cup { [st |-> "rejected", value |-> v, via |-> w] :
              v \in NativeErrors, w \in {"callback", "throw"} }

Message(event, sync) ==
    /\ pc \in {"echo", "native", "done"}
    /\ ~MicrotaskPending
    /\ lastMsg' = event
    /\ IF echoListener /\ echoPredicate(event)
       THEN /\ handshakeTimer' = clearTimeout(handshakeTimer)
            /\ echoListener' = removeEventListener(echoListener)
            /\ nativeCalls' = nativeCalls + 1
            /\ nativePromise' = sync
            /\ pc' = "native"
       ELSE /\ sync.st = "pending"
            /\ UNCHANGED <<handshakeTimer, echoListener, nativeCalls, nativePromise, pc>>
    /\ UNCHANGED <<urls, idx, scripts, cspListening, violations, lastCspViolation,
                   lastLoadError, loadedUrl, bridge, posted, origin, pluginObject, facade,
                   settled, state, reason, timeoutId, caught>>
    /\ UNCHANGED callVars

(***************************************************************************)
(* waitForMessage's timer fires: the wait is cleaned up and rejects; init  *)
(* rethrows it as HANDSHAKE_TIMEOUT.                                       *)
(***************************************************************************)
HandshakeTimeout ==
    /\ handshakeTimer = "armed"
    /\ ~MicrotaskPending
    /\ handshakeTimer' = "fired"
    /\ echoListener' = removeEventListener(echoListener)
    /\ initThrows(cadesError("HANDSHAKE_TIMEOUT",
                             [NoDetails EXCEPT !.timeoutMs = handshakeTimeoutMs,
                                               !.loadedUrl = loadedUrl],
                             "Timed out waiting for CryptoPro extension handshake"))
    /\ UNCHANGED <<urls, idx, scripts, cspListening, violations, lastCspViolation,
                   lastLoadError, loadedUrl, bridge, posted, origin, nativeCalls,
                   nativePromise, pluginObject, facade, lastMsg>>
    /\ UNCHANGED callVars

(***************************************************************************)
(* The global timer fires.                                                 *)
(***************************************************************************)
\* A timer callback that rejects nothing.
GlobalTimeoutNoReject ==
    /\ timeoutId = "armed"
    /\ ~MicrotaskPending
    /\ timeoutId' = "fired"
    /\ UNCHANGED <<pc, urls, idx, scripts, cspListening, violations, lastCspViolation,
                   lastLoadError, loadedUrl, bridge, posted, origin, echoListener,
                   handshakeTimer, nativeCalls, nativePromise, pluginObject, facade,
                   settled, state, reason, caught, lastMsg>>
    /\ UNCHANGED callVars

GlobalTimeout ==
    /\ timeoutId = "armed"
    /\ ~MicrotaskPending
    /\ timeoutId' = "fired"
    /\ rejectOnce(cadesError("PLUGIN_LOAD_TIMEOUT",
                             [NoDetails EXCEPT !.timeoutMs = loadTimeoutMs], Undefined))
    /\ UNCHANGED <<pc, urls, idx, scripts, cspListening, violations, lastCspViolation,
                   lastLoadError, loadedUrl, bridge, posted, origin, echoListener,
                   handshakeTimer, nativeCalls, nativePromise, pluginObject, facade,
                   caught, lastMsg>>
    /\ UNCHANGED callVars

(***************************************************************************)
(* The extension calls a callback of check_chrome_plugin after the call    *)
(* returned, or a second callback: the promise keeps its first outcome.    *)
(***************************************************************************)
NativeOk ==
    /\ nativePromise.st # "none"
    /\ nativePromise' =
          IF nativePromise.st = "pending"
          THEN [st |-> "resolved", value |-> Undefined, via |-> "callback"]
          ELSE nativePromise
    /\ UNCHANGED <<pc, urls, idx, scripts, cspListening, violations, lastCspViolation,
                   lastLoadError, loadedUrl, bridge, posted, origin, echoListener,
                   handshakeTimer, nativeCalls, pluginObject, facade, settled, state,
                   reason, timeoutId, caught, lastMsg>>
    /\ UNCHANGED callVars

NativeFail(e) ==
    /\ nativePromise.st # "none"
    /\ nativePromise' =
          IF nativePromise.st = "pending"
          THEN [st |-> "rejected", value |-> e, via |-> "callback"]
          ELSE nativePromise
    /\ UNCHANGED <<pc, urls, idx, scripts, cspListening, violations, lastCspViolation,
                   lastLoadError, loadedUrl, bridge, posted, origin, echoListener,
                   handshakeTimer, nativeCalls, pluginObject, facade, settled, state,
                   reason, timeoutId, caught, lastMsg>>
    /\ UNCHANGED callVars

(***************************************************************************)
(* init() resumes after the native-host check: a rejection is rethrown as  *)
(* NATIVE_HOST_HANDSHAKE_FAILED; otherwise the plugin object is checked    *)
(* and the facade settled.                                                 *)
(***************************************************************************)
Resume ==
    /\ MicrotaskPending
    /\ LET details == [NoDetails EXCEPT !.loadedUrl = loadedUrl]
       IN  IF nativePromise.st = "rejected"
           THEN initThrows(nativeFailure(loadedUrl, nativePromise.value))
           ELSE IF ~hasCreateObjectAsync(pluginObject)
           THEN initThrows(cadesError("PLUGIN_OBJECT_MISSING", details, Undefined))
           ELSE initReturns
    /\ UNCHANGED <<urls, idx, scripts, cspListening, violations, lastCspViolation,
                   lastLoadError, loadedUrl, bridge, posted, origin, echoListener,
                   handshakeTimer, nativeCalls, nativePromise, pluginObject, facade,
                   lastMsg>>
    /\ UNCHANGED callVars

\* A set() that keeps the first object it was given.
set_pluginObjectOnce(obj) ==
    /\ facade
    /\ pluginObject' = IF pluginObject # "null" THEN pluginObject
                       ELSE IF obj \in {Undefined, "null"} THEN "null" ELSE obj
    /\ UNCHANGED <<pc, urls, idx, scripts, cspListening, violations, lastCspViolation,
                   lastLoadError, loadedUrl, bridge, posted, origin, echoListener,
                   handshakeTimer, nativeCalls, nativePromise, facade, settled, state,
                   reason, timeoutId, caught, lastMsg>>
    /\ UNCHANGED callVars

(***************************************************************************)
(* cadesplugin.set(obj), called by the extension at any time once the      *)
(* facade is published.                                                    *)
(***************************************************************************)
set_pluginObject(obj) ==
    /\ facade
    /\ pluginObject' = IF obj \in {Undefined, "null"} THEN "null" ELSE obj
    /\ UNCHANGED <<pc, urls, idx, scripts, cspListening, violations, lastCspViolation,
                   lastLoadError, loadedUrl, bridge, posted, origin, echoListener,
                   handshakeTimer, nativeCalls, nativePromise, facade, settled, state,
                   reason, timeoutId, caught, lastMsg>>
    /\ UNCHANGED callVars

\* A CreateObjectAsync that keeps the call for later instead of throwing.
CreateObjectAsyncQueued(name) ==
    /\ facade
    /\ result' =
          IF ~hasCreateObjectAsync(pluginObject)
          THEN [NoResult EXCEPT !.op = "CreateObjectAsync", !.name = name,
                                !.outcome = "queued"]
          ELSE [NoResult EXCEPT !.op = "CreateObjectAsync", !.name = name,
                                !.outcome = "delegated", !.passed = name]
    /\ UNCHANGED <<pc, urls, idx, scripts, cspListening, violations, lastCspViolation,
                   lastLoadError, loadedUrl, bridge, posted, origin, echoListener,
                   handshakeTimer, nativeCalls, nativePromise, pluginObject, facade,
                   settled, state, reason, timeoutId, caught, lastMsg,
                   loadTimeoutMs, handshakeTimeoutMs, negotiations, writable,
                   currentLogLevel, logged, spawn, client, util, ext, twin>>

(***************************************************************************)
(* cadesplugin.CreateObjectAsync(name), called by the page at any time     *)
(* once it holds the facade: it throws when pluginObject provides no       *)
(* CreateObjectAsync, and otherwise hands the name to pluginObject.        *)
(***************************************************************************)
CreateObjectAsync(name) ==
    /\ facade
    /\ result' =
          IF ~hasCreateObjectAsync(pluginObject)
          THEN [NoResult EXCEPT !.op = "CreateObjectAsync", !.name = name,
                                !.outcome = "threw",
                                !.error = cadesError("PLUGIN_OBJECT_MISSING", NoDetails, Undefined)]
          ELSE [NoResult EXCEPT !.op = "CreateObjectAsync", !.name = name,
                                !.outcome = "delegated", !.passed = name]
    /\ UNCHANGED <<pc, urls, idx, scripts, cspListening, violations, lastCspViolation,
                   lastLoadError, loadedUrl, bridge, posted, origin, echoListener,
                   handshakeTimer, nativeCalls, nativePromise, pluginObject, facade,
                   settled, state, reason, timeoutId, caught, lastMsg,
                   loadTimeoutMs, handshakeTimeoutMs, negotiations, writable,
                   currentLogLevel, logged, spawn, client, util, ext, twin>>

\* The decimal digits of a natural number.
RECURSIVE decimal(_)
decimal(n) ==
    IF n < 10 THEN charAt(DigitChars, n + 1)
    ELSE decimal(n \div 10) \o charAt(DigitChars, (n % 10) + 1)

\* String(value)
String(value) ==
    IF value.typeof = "undefined" THEN "undefined"
    ELSE IF value = JsNull THEN "null"
    ELSE IF value.typeof = "number"
    THEN IF value.special # "" THEN value.special
         ELSE IF value.num < 0 THEN "-" \o decimal(0 - value.num)
         ELSE decimal(value.num)
    ELSE "[object]"

\* A check that lets every number through.
anyNumberLogLevel(level) == level.typeof = "number"

\* The three values set_log_level accepts.
recognizedLogLevel(level) ==
    level \in {JsNumber(LOG_LEVEL_DEBUG), JsNumber(LOG_LEVEL_INFO), JsNumber(LOG_LEVEL_ERROR)}

\* debug, info or error: the suffix of the message to the extension.
logLevelSuffix(level) ==
    IF level = JsNumber(LOG_LEVEL_DEBUG) THEN "debug"
    ELSE IF level = JsNumber(LOG_LEVEL_INFO) THEN "info"
    ELSE "error"

(***************************************************************************)
(* cadesplugin.set_log_level(level): a value that is none of the three     *)
(* levels is reported through cpcsp_console_log and dropped; otherwise the *)
(* level is stored and forwarded to the extension with win.postMessage,    *)
(* whose failure is caught and dropped.                                    *)
(***************************************************************************)
set_log_level(level, post) ==
    /\ facade
    /\ IF ~recognizedLogLevel(level)
       THEN /\ logged' = cpcsp_console_log(LOG_LEVEL_ERROR,
                                           "Incorrect log_level: " \o String(level),
                                           currentLogLevel, logged)
            /\ result' = [NoResult EXCEPT !.op = "set_log_level", !.arg = level,
                                          !.outcome = "returned"]
            /\ UNCHANGED <<currentLogLevel, posted>>
       ELSE /\ currentLogLevel' = level
            /\ posted' = IF post = NoReason
                         THEN Append(posted, "set_log_level=" \o logLevelSuffix(level))
                         ELSE posted
            /\ result' = [NoResult EXCEPT !.op = "set_log_level", !.arg = level,
                                          !.outcome = "returned", !.ignored = post]
            /\ UNCHANGED logged
    /\ UNCHANGED <<pc, urls, idx, scripts, cspListening, violations, lastCspViolation,
                   lastLoadError, loadedUrl, bridge, origin, echoListener,
                   handshakeTimer, nativeCalls, nativePromise, pluginObject, facade,
                   settled, state, reason, timeoutId, caught, lastMsg>>
    /\ UNCHANGED <<loadTimeoutMs, handshakeTimeoutMs, negotiations, writable, spawn, client, util, ext, twin>>

(***************************************************************************)
(* cadesplugin.current_log_level = level: the setter of the facade stores  *)
(* what it is given.                                                       *)
(***************************************************************************)
set_current_log_level(level) ==
    /\ facade
    /\ currentLogLevel' = level
    /\ result' = [NoResult EXCEPT !.op = "current_log_level", !.arg = level,
                                  !.outcome = "returned"]
    /\ UNCHANGED handshakeVars
    /\ UNCHANGED <<loadTimeoutMs, handshakeTimeoutMs, negotiations, writable, logged,
                   spawn, client, util, ext, twin>>

\* isErrorWithMessage: an object, not null, with a message property.
isErrorWithMessage(value) == value.typeof = "object" /\ value.hasMessage

\* getMessageFromException: the message of an error-like object when it is a
\* string, the value itself when it is a string, otherwise JSON.stringify of
\* it (undefined for undefined) and, when that throws, String of it.
getMessageFromException(exception) ==
    IF isErrorWithMessage(exception) /\ exception.message.typeof = "string"
    THEN exception.message
    ELSE IF exception.typeof = "string" THEN Str(exception.text)
    ELSE IF exception.json = "throws" THEN Str("[object Object]")
    ELSE IF exception.json = "undefined" THEN [typeof |-> "undefined", value |-> ""]
    ELSE Str(exception.json)

\* A normalizeErrorForUser without the fallback text.
normalizeErrorBare(error) == getMessageFromException(error).value

\* normalizeErrorForUser: message || 'CryptoPro plugin is not available'
normalizeErrorForUser(error) ==
    LET message == getMessageFromException(error)
    IN  IF message.typeof = "string" /\ message.value # ""
        THEN message.value
        ELSE "CryptoPro plugin is not available"

(***************************************************************************)
(* cadesplugin.getLastError(exception): pluginObject?.getLastError?.() is  *)
(* returned when it is a non-empty string; when there is no plugin object  *)
(* or no such entry point, when the result is anything else or the call    *)
(* throws, the message of the exception is returned.  native is what the   *)
(* plugin object that is published provides at this call.                  *)
(***************************************************************************)
getLastError(exception, native) ==
    /\ facade
    /\ pluginObject = "null" => native = NoEntryPoint
    /\ result' = [NoResult EXCEPT
                     !.op = "getLastError", !.exception = exception, !.native = native,
                     !.outcome = "returned",
                     !.returned =
                         IF /\ native.st = "returns"
                            /\ native.value.typeof = "string"
                            /\ native.value.value # ""
                         THEN native.value.value
                         ELSE normalizeErrorForUser(exception)]
    /\ UNCHANGED handshakeVars
    /\ UNCHANGED <<loadTimeoutMs, handshakeTimeoutMs, negotiations, writable,
                   currentLogLevel, logged, spawn, client, util, ext, twin>>

\* A ReleasePluginObjects that returns undefined when there is no entry point.
ReleasePluginObjectsLenient(api) ==
    /\ facade
    /\ api.st = "absent" => ~bridge
    /\ result' = [NoResult EXCEPT !.op = "ReleasePluginObjects", !.native = api,
                                  !.outcome = "returned",
                                  !.returned = IF api.st = "returns" THEN api.value.value
                                               ELSE Undefined]
    /\ UNCHANGED handshakeVars
    /\ UNCHANGED <<loadTimeoutMs, handshakeTimeoutMs, negotiations, writable,
                   currentLogLevel, logged, spawn, client, util, ext, twin>>

(***************************************************************************)
(* cadesplugin.ReleasePluginObjects(): win.cpcsp_chrome_nmcades is read at *)
(* the call; without it, or without its ReleasePluginObjects, the call     *)
(* throws EXTENSION_API_MISSING, otherwise it returns what the entry point *)
(* returns.  api is what the window provides at this call: no bridge       *)
(* (absent), a bridge without the entry point (missing), or the entry      *)
(* point.                                                                  *)
(***************************************************************************)
ReleasePluginObjects(api) ==
    /\ facade
    /\ api.st = "absent" => ~bridge
    /\ result' = IF api.st # "returns"
                 THEN [NoResult EXCEPT !.op = "ReleasePluginObjects", !.native = api,
                                       !.outcome = "threw",
                                       !.error = cadesError("EXTENSION_API_MISSING", NoDetails,
                                                            Undefined)]
                 ELSE [NoResult EXCEPT !.op = "ReleasePluginObjects", !.native = api,
                                       !.outcome = "returned",
                                       !.returned = api.value.value]
    /\ UNCHANGED handshakeVars
    /\ UNCHANGED <<loadTimeoutMs, handshakeTimeoutMs, negotiations, writable,
                   currentLogLevel, logged, spawn, client, util, ext, twin>>

(***************************************************************************)
(* Inputs of installCadesPlugin.                                           *)
(***************************************************************************)
UserAgents ==
    {"Mozilla/5.0 Chrome/120.0.0.0 Safari/537.36",
     "Mozilla/5.0 Chrome/120.0.0.0 Safari/537.36 Edg/120.0.0.0",
     "Mozilla/5.0 Chrome/120.0.0.0 Safari/537.36 OPR/106.0.0.0",
     "Mozilla/5.0 Chrome/120.0.0.0 YaBrowser/24.1.0 Safari/537.36",
     "Mozilla/5.0 Gecko/20100101 Firefox/121.0"}

ChromeUserAgent == "Mozilla/5.0 Chrome/120.0.0.0 Safari/537.36"

\* One call with a URL override for each candidate list.
SpecOptions ==
    { [NoOptions EXCEPT !.extensionApiUrls = JsArray([i \in 1..Len(l) |-> Str(l[i])])] :
          l \in CandidateLists }

Next ==
    \/ \E opts \in SpecOptions :
          pc = "idle" /\ installCadesPlugin(opts, JsUndefined, ChromeUserAgent)
    \/ \E hasApi \in BOOLEAN, pageOrigin \in {PageOrigin, Null},
          post \in {NoReason} \cup PostFailures : ScriptLoaded(hasApi, pageOrigin, post)
    \/ ScriptError
    \/ \E uri \in BlockedUris : CspViolation(uri)
    \/ \E event \in Messages, sync \in SyncOutcomes : Message(event, sync)
    \/ HandshakeTimeout
    \/ GlobalTimeout
    \/ NativeOk
    \/ \E e \in NativeErrors : NativeFail(e)
    \/ Resume
    \/ \E obj \in PluginObjects \cup {Undefined} : set_pluginObject(obj)

Spec == Init /\ [][Next]_vars

\* Armed timers eventually fire and a released continuation eventually runs.
FairSpec ==
    /\ Spec
    /\ WF_vars(GlobalTimeout)
    /\ WF_vars(HandshakeTimeout)
    /\ WF_vars(Resume)

(***************************************************************************)
(* The page as a whole: installCadesPlugin is called any number of times,  *)
(* with well-formed and with ill-formed options, while the negotiation     *)
(* runs, and the page calls CreateObjectAsync on the facade.  The events   *)
(* of the environment are a selection of those of Spec, under which the    *)
(* negotiation itself is examined.                                         *)
(***************************************************************************)
UpperCaseId == "  IIFCHHFNNMPDBIBIFMLJNFJHPIFIFFOG "

PageOptions ==
    {NoOptions,
     [NoOptions EXCEPT !.extensionIds = JsArray(<<Str(UpperCaseId)>>)],
     [NoOptions EXCEPT !.extensionIds = JsArray(<<>>)],
     [NoOptions EXCEPT !.extensionIds = JsArray(<<Str("not-an-extension-id")>>)],
     [NoOptions EXCEPT !.timeoutMs = JsNumber(0)]}

ObjectNames == {"CAdESCOM.Store", "CAdESCOM.About"}

PageBlockedUris == {"https://cdn.example/x.js"}

PageMessages ==
    { m \in Messages : m.source = "win" /\ m.data \in {Str("cadesplugin_loaded"), Num("123")} }

\* Negotiations followed on a window that refuses the facade.
MaxNegotiations == 2

\* Nothing of the negotiation started last is left to run.
Quiescent ==
    /\ pc = "done"
    /\ timeoutId # "armed"
    /\ handshakeTimer # "armed"
    /\ ~echoListener
    /\ ~cspListening

\* The page calls installCadesPlugin at any time on a window that holds the
\* facade or has seen no negotiation; on a window that refused the facade it
\* calls again once the negotiation before has come to rest, so that one
\* negotiation is followed at a time.
CallsAgain ==
    \/ facade
    \/ negotiations = 0
    \/ negotiations < MaxNegotiations /\ Quiescent

PageNext ==
    \/ \E opts \in PageOptions :
          CallsAgain /\ installCadesPlugin(opts, JsUndefined, ChromeUserAgent)
    \/ \E name \in ObjectNames : CreateObjectAsync(name)
    \/ \E hasApi \in BOOLEAN, pageOrigin \in {PageOrigin, Null},
          post \in {NoReason} \cup PostFailures : ScriptLoaded(hasApi, pageOrigin, post)
    \/ ScriptError
    \/ \E uri \in PageBlockedUris : CspViolation(uri)
    \/ \E event \in PageMessages, sync \in SyncOutcomes : Message(event, sync)
    \/ HandshakeTimeout
    \/ GlobalTimeout
    \/ NativeOk
    \/ \E e \in NativeErrors : NativeFail(e)
    \/ Resume
    \/ \E obj \in PluginObjects \cup {Undefined} : set_pluginObject(obj)

PageSpec == Init /\ [][PageNext]_vars

(***************************************************************************)
(* The diagnostics of the facade: getLastError and ReleasePluginObjects    *)
(* called in every state of one negotiation.                               *)
(***************************************************************************)
Exceptions ==
    {Exception("object", TRUE, Str("Access denied"), "", "{}"),
     Exception("object", TRUE, Str(""), "", "{}"),
     Exception("object", TRUE, Num("42"), "", "{\"message\":42}"),
     Exception("string", FALSE, [typeof |-> "undefined", value |-> ""], "boom", "\"boom\""),
     Exception("string", FALSE, [typeof |-> "undefined", value |-> ""], "", "\"\""),
     Exception("undefined", FALSE, [typeof |-> "undefined", value |-> ""], "", "undefined"),
     Exception("object", FALSE, [typeof |-> "undefined", value |-> ""], "", "throws")}

\* pluginObject.getLastError at a call: absent, returning a text, the empty
\* string or a number, or throwing.
NativeLastErrors ==
    {NoEntryPoint,
     [st |-> "returns", value |-> Str("0x8009000D")],
     [st |-> "returns", value |-> Str("")],
     [st |-> "returns", value |-> Num("5")],
     [st |-> "throws", value |-> [typeof |-> "undefined", value |-> ""]]}

\* win.cpcsp_chrome_nmcades at a call: no bridge, a bridge without
\* ReleasePluginObjects, a bridge whose ReleasePluginObjects returns a value.
ReleaseEntryPoints ==
    {NoEntryPoint,
     [st |-> "missing", value |-> [typeof |-> "undefined", value |-> ""]],
     [st |-> "returns", value |-> Str("released")]}

DiagNext ==
    \/ /\ pc = "idle"
       /\ installCadesPlugin(NoOptions, JsUndefined, ChromeUserAgent)
    \/ \E exception \in Exceptions, native \in NativeLastErrors : getLastError(exception, native)
    \/ \E api \in ReleaseEntryPoints : ReleasePluginObjects(api)
    \/ \E hasApi \in BOOLEAN : ScriptLoaded(hasApi, PageOrigin, NoReason)
    \/ ScriptError
    \/ \E event \in PageMessages : Message(event, [st |-> "pending", value |-> Undefined, via |-> Null])
    \/ HandshakeTimeout
    \/ GlobalTimeout
    \/ NativeOk
    \/ Resume
    \/ \E obj \in PluginObjects : set_pluginObject(obj)

DiagSpec == Init /\ [][DiagNext]_vars

(***************************************************************************)
(* The log level: one call of installCadesPlugin with a log level, then    *)
(* set_log_level and assignments to current_log_level in any order while   *)
(* the candidate loop runs.                                                *)
(***************************************************************************)
\* Calls of set_log_level followed.
MaxLevelCalls == 1

LogLevelInputs == {JsUndefined, JsNumber(1), JsNumber(2), JsNumber(4), JsNumber(3), JsNumber(0)}

\* Values handed to set_log_level and assigned to current_log_level.
LogLevelArgs == {JsNumber(1), JsNumber(2), JsNumber(4), JsNumber(3), JsNumber(0), JsNaN}

LogNext ==
    \/ \E level \in LogLevelInputs :
          /\ pc = "idle"
          /\ result = NoResult
          /\ installCadesPlugin([NoOptions EXCEPT !.logLevel = level], JsUndefined, ChromeUserAgent)
    \/ \E level \in LogLevelInputs :
          /\ facade
          /\ installCadesPlugin([NoOptions EXCEPT !.logLevel = level], JsUndefined, ChromeUserAgent)
    \/ \E level \in LogLevelArgs, post \in {NoReason, Thrown("value", Null, "postMessage refused")} :
          /\ Len(posted) < MaxLevelCalls
          /\ Len(logged) < MaxLevelCalls + 1
          /\ set_log_level(level, post)
    \/ \E level \in LogLevelArgs : set_current_log_level(level)
    \/ ScriptError

LogSpec == Init /\ [][LogNext]_vars

(***************************************************************************)
(* The option handling alone: one call of installCadesPlugin on a fresh    *)
(* window, over timeouts, page globals, override lists, log levels and     *)
(* user agents, and a second call once the window holds the facade.        *)
(***************************************************************************)
MaxEntries == 2

TimeoutInputs ==
    {JsUndefined, JsNumber(100), JsNumber(30000), JsNumber(0), JsNumber(-5),
     JsNaN, JsInfinity, JsNegInfinity}

HandshakeInputs == {JsUndefined, JsNumber(100), JsNumber(7000), JsNumber(0), JsNaN}

GlobalTimeouts ==
    {JsUndefined, JsNull, JsNumber(3000), JsNumber(45000), JsNumber(0), JsNumber(-1),
     JsNaN, JsInfinity}

IdEntries ==
    {Str(CRYPTOPRO_EXTENSION_IDS.manifestV3), Str(UpperCaseId), Str("abc"),
     Str("qifchhfnnmpdbibifmljnfjhpififfog"), Str("  "), Num("7")}

UrlEntries ==
    {Str(UrlPool[1]), Str(" chrome-extension://b/nmcades_plugin_api.js "),
     Str("https://cdn.example/nmcades_plugin_api.js"), Num("7")}

\* The arrays of at most MaxEntries entries, and the field left out.
ListsOf(entries) ==
    {JsUndefined} \cup
    { JsArray(l) : l \in UNION { [1..n -> entries] : n \in 0..MaxEntries } }

\* Timeouts against page globals; every URL list against a few identifier
\* lists and every identifier list against a few URL lists; log levels and
\* user agents on their own.
InstallInputs ==
    { <<[NoOptions EXCEPT !.timeoutMs = t, !.handshakeTimeoutMs = h], g, ChromeUserAgent>> :
          t \in TimeoutInputs, h \in HandshakeInputs, g \in GlobalTimeouts }
    \cup
    { <<[NoOptions EXCEPT !.extensionApiUrls = u, !.extensionIds = i], JsUndefined, ChromeUserAgent>> :
          u \in ListsOf(UrlEntries),
          i \in {JsUndefined, JsArray(<<>>), JsArray(<<Str("abc")>>), JsArray(<<Str(UpperCaseId)>>)} }
    \cup
    { <<[NoOptions EXCEPT !.extensionApiUrls = u, !.extensionIds = i], JsUndefined, ChromeUserAgent>> :
          u \in {JsUndefined, JsArray(<<Str(UrlPool[1])>>)},
          i \in ListsOf(IdEntries) }
    \cup
    { <<[NoOptions EXCEPT !.logLevel = l, !.extensionIds = i], JsUndefined, ua>> :
          l \in LogLevelInputs, i \in {JsUndefined, JsArray(<<>>)}, ua \in UserAgents }

\* Options of a second call, made on the window that holds the facade.
RepeatOptions ==
    PageOptions \cup
    {[NoOptions EXCEPT !.timeoutMs = JsNaN],
     [NoOptions EXCEPT !.handshakeTimeoutMs = JsNumber(0)],
     [NoOptions EXCEPT !.extensionApiUrls = JsArray(<<Str("https://cdn.example/nmcades_plugin_api.js")>>)]}

OptionsNext ==
    \/ \E input \in InstallInputs :
          result = NoResult /\ installCadesPlugin(input[1], input[2], input[3])
    \/ \E opts \in RepeatOptions :
          /\ result.outcome = "installed"
          /\ facade
          /\ installCadesPlugin(opts, JsUndefined, ChromeUserAgent)

OptionsSpec == Init /\ [][OptionsNext]_vars

(***************************************************************************)
(* Properties.                                                             *)
(***************************************************************************)
TimeoutError ==
    cadesError("PLUGIN_LOAD_TIMEOUT", [NoDetails EXCEPT !.timeoutMs = loadTimeoutMs], Undefined)

\* C1: settle-once.  Once the facade has left pending, no step of the
\* negotiation or of its environment (a timer, a message, a script signal, a
\* native-host callback, set()) changes the state, the rejection reason or
\* the settled flag.
C1_SettleOnce ==
    [][state # "pending" =>
          (state' = state /\ reason' = reason /\ settled' = settled)]_vars

\* A handshake timeout that init() reported after the global timer had
\* already rejected the facade: the later settlement attempt was dropped.
C1_Witness ==
    /\ timeoutId = "fired"
    /\ caught.code = "HANDSHAKE_TIMEOUT"
    /\ state = "rejected"
    /\ reason.code = "PLUGIN_LOAD_TIMEOUT"

\* C2: every negotiation that was started eventually settles, resolved or
\* rejected, provided armed timers fire and released continuations run.
C2_EventuallySettled ==
    (pc # "idle") ~> (settled /\ state \in {"resolved", "rejected"})

\* The facade was settled while the first script element had signalled
\* neither load nor error.
C2_Witness ==
    /\ pc = "loading"
    /\ scripts[Len(scripts)].st = "loading"
    /\ state = "rejected"

\* C3: when the global timer fires on a pending facade the facade is rejected
\* with PLUGIN_LOAD_TIMEOUT, and that rejection stays whatever the steps in
\* flight produce later; when the facade is already settled, the timer firing
\* changes nothing.
C3_GlobalTimerRace ==
    [][/\ (timeoutId = "armed" /\ timeoutId' = "fired") =>
             IF state = "pending"
             THEN state' = "rejected" /\ reason' = TimeoutError
             ELSE state' = state /\ reason' = reason
       /\ (state = "rejected" /\ reason.code = "PLUGIN_LOAD_TIMEOUT") =>
             (state' = "rejected" /\ reason' = reason)]_vars

\* init() ran to its successful end after the global timer had fired: the
\* success was dropped.
C3_Witness ==
    /\ timeoutId = "fired"
    /\ caught.kind = "ok"
    /\ state = "rejected"
    /\ reason.code = "PLUGIN_LOAD_TIMEOUT"

\* C4 as stated: once the handshake timer has fired, the facade is rejected
\* with HANDSHAKE_TIMEOUT.
C4_Original ==
    handshakeTimer = "fired" => (state = "rejected" /\ reason.code = "HANDSHAKE_TIMEOUT")

\* C4 as amended: once the handshake timer has fired, the facade is rejected
\* with HANDSHAKE_TIMEOUT, unless the global timer had fired before and
\* PLUGIN_LOAD_TIMEOUT stands; in both cases no later message (a late
\* 'cadesplugin_loaded' included) changes the rejection, the listener is gone
\* and the native-host check is never invoked.
C4_HandshakeTimeout ==
    handshakeTimer = "fired" =>
        /\ state = "rejected"
        /\ caught.code = "HANDSHAKE_TIMEOUT"
        /\ caught.details.loadedUrl = loadedUrl
        /\ reason = IF timeoutId = "fired" THEN TimeoutError ELSE caught
        /\ ~echoListener
        /\ nativeCalls = 0
        /\ nativePromise.st = "none"

\* A well-formed 'cadesplugin_loaded' message delivered after the handshake
\* timeout had rejected the facade.
C4_Witness ==
    /\ handshakeTimer = "fired"
    /\ reason.code = "HANDSHAKE_TIMEOUT"
    /\ lastMsg = [source |-> "win", origin |-> PageOrigin, data |-> Str("cadesplugin_loaded")]

\* C5: candidates are attempted strictly in list order and one at a time: the
\* script elements are the candidates in order, every element but the last
\* has signalled an error and was removed, at most one load is in flight, a
\* loaded element is the last one ever created, and the handshake carries
\* the URL of that element and no other.
C5_Sequential ==
    /\ Len(scripts) <= Len(urls)
    /\ \A i \in 1..Len(scripts) : scripts[i].src = urls[i]
    /\ \A i \in 1..(Len(scripts) - 1) : scripts[i].st = "removed"
    /\ Cardinality({i \in 1..Len(scripts) : scripts[i].st = "loading"}) <= 1
    /\ pc = "loading" => (idx = Len(scripts) /\ scripts[idx].st = "loading")
    /\ loadedUrl # Null <=>
          (scripts # <<>> /\ scripts[Len(scripts)].st = "loaded")
    /\ loadedUrl # Null => loadedUrl = scripts[Len(scripts)].src
    /\ caught.details.loadedUrl \in {Null, loadedUrl}
    /\ reason.details.loadedUrl \in {Null, loadedUrl}
    /\ nativeCalls > 0 => loadedUrl # Null

\* Three candidates, the first two failed, the third loaded and the
\* native-host check was reached with it.
C5_Witness ==
    /\ Len(urls) = 3
    /\ [i \in 1..Len(scripts) |-> scripts[i].st] = <<"removed", "removed", "loaded">>
    /\ loadedUrl = urls[3]
    /\ nativeCalls = 1

\* The messages that pass the filter as C6 states it: sent by the page
\* window, from the page origin, a string containing 'cadesplugin_loaded'.
C6_StatedFilter(event) ==
    /\ event.source = "win"
    /\ event.origin = PageOrigin
    /\ event.data \in {Str("cadesplugin_loaded"), Str("{\"type\":\"cadesplugin_loaded\"}")}

\* The same filter with the origin compared only when init() could read
\* the page origin.
C6_AmendedFilter(event) ==
    /\ event.source = "win"
    /\ origin = Null \/ event.origin = PageOrigin
    /\ event.data \in {Str("cadesplugin_loaded"), Str("{\"type\":\"cadesplugin_loaded\"}")}

\* C6 as stated: a message completes the echo wait exactly when it passes the
\* stated filter.
C6_Original ==
    [][/\ (pc = "echo" /\ pc' = "native") => C6_StatedFilter(lastMsg')
       /\ (pc = "echo" /\ lastMsg' # lastMsg /\ C6_StatedFilter(lastMsg')) => pc' = "native"]_vars

\* C6 as amended: a message completes the echo wait exactly when it is sent
\* by the page window, is a string containing 'cadesplugin_loaded' and, if
\* the page origin could be read, comes from the page origin; every other
\* message leaves the wait, the native-host check and the facade untouched.
C6_EchoFilter ==
    [][/\ (pc = "echo" /\ pc' = "native") => C6_AmendedFilter(lastMsg')
       /\ nativeCalls' # nativeCalls =>
             (pc = "echo" /\ nativeCalls' = nativeCalls + 1 /\ C6_AmendedFilter(lastMsg'))
       /\ (pc = "echo" /\ lastMsg' # lastMsg /\ C6_AmendedFilter(lastMsg')) =>
             (pc' = "native" /\ nativeCalls' = nativeCalls + 1)
       /\ (pc = "echo" /\ lastMsg' # lastMsg /\ ~C6_AmendedFilter(lastMsg')) =>
             UNCHANGED <<pc, echoListener, handshakeTimer, nativeCalls, nativePromise,
                         settled, state, reason>>
       /\ state' = "resolved" => nativeCalls' > 0]_vars

\* A 'cadesplugin_loaded' message from another frame was delivered during
\* the echo wait, and the wait goes on.
C6_Witness ==
    /\ pc = "echo"
    /\ echoListener
    /\ origin = PageOrigin
    /\ lastMsg = [source |-> "frame", origin |-> PageOrigin, data |-> Str("cadesplugin_loaded")]
    /\ nativeCalls = 0

\* C7 as stated: when init() resumes after the success callback and no
\* object providing CreateObjectAsync is published, the facade is rejected
\* with PLUGIN_OBJECT_MISSING.
C7_Original ==
    [][(/\ pc = "native"
        /\ nativePromise.st = "resolved"
        /\ pluginObject # "objWithCreateObjectAsync"
        /\ pc' = "done") =>
          (state' = "rejected" /\ reason'.code = "PLUGIN_OBJECT_MISSING")]_vars

\* C7 as amended: in that case init() ends with PLUGIN_OBJECT_MISSING and the
\* facade is rejected with it, unless the global timer had fired before and
\* PLUGIN_LOAD_TIMEOUT stands; the facade is never resolved afterwards,
\* whatever set() publishes later.
C7_PluginObjectMissing ==
    [][/\ (/\ pc = "native"
           /\ nativePromise.st = "resolved"
           /\ pluginObject # "objWithCreateObjectAsync"
           /\ pc' = "done") =>
             /\ state' = "rejected"
             /\ caught'.code = "PLUGIN_OBJECT_MISSING"
             /\ caught'.details.loadedUrl = loadedUrl
             /\ reason' = IF timeoutId = "fired" THEN TimeoutError ELSE caught'
       /\ caught.code = "PLUGIN_OBJECT_MISSING" => (state = "rejected" /\ state' = "rejected")
       /\ (/\ pc = "native"
           /\ nativePromise.st = "resolved"
           /\ pluginObject = "objWithCreateObjectAsync"
           /\ pc' = "done") => caught'.kind = "ok"]_vars

\* The facade was rejected with PLUGIN_OBJECT_MISSING and the object was
\* published only afterwards.
C7_Witness ==
    /\ nativePromise.st = "resolved"
    /\ state = "rejected"
    /\ reason.code = "PLUGIN_OBJECT_MISSING"
    /\ pluginObject = "objWithCreateObjectAsync"

\* A violation was recorded whose blocked resource is one of the candidates.
C8_RecordedForAttempted ==
    \E k \in 1..Len(violations), j \in 1..Len(urls) : violations[k].blockedURI = urls[j]

\* C8 as stated: when no candidate loaded, the facade is rejected with
\* CSP_BLOCKED if a violation was recorded for one of the attempted URLs and
\* with EXTENSION_API_LOAD_FAILED otherwise, and the details hold the
\* attempted URLs and the violation record.
C8_Original ==
    (pc = "done" /\ loadedUrl = Null) =>
        /\ state = "rejected"
        /\ reason.code = IF C8_RecordedForAttempted THEN "CSP_BLOCKED"
                         ELSE "EXTENSION_API_LOAD_FAILED"
        /\ reason.details.attemptedUrls = urls
        /\ C8_RecordedForAttempted => reason.details.cspViolation # NoViolation

\* C8 as amended: a violation counts when it was already recorded for a
\* candidate at the moment that candidate's load error is handled (one
\* recorded later is not looked up again); when no candidate loaded, init()
\* ends with CSP_BLOCKED if some candidate had such a violation and with
\* EXTENSION_API_LOAD_FAILED otherwise, the details holding the whole
\* candidate list, all of it attempted, and the violation; the facade is
\* rejected with that error unless the global timer had fired before and
\* PLUGIN_LOAD_TIMEOUT stands.  With a single candidate every recorded
\* violation for it counts.
C8_LoadFailure ==
    /\ [](/\ (pc = "done" /\ loadedUrl = Null) =>
               /\ state = "rejected"
               /\ Len(scripts) = Len(urls)
               /\ \A i \in 1..Len(scripts) : scripts[i].st = "removed"
               /\ caught.code = IF lastCspViolation # NoViolation THEN "CSP_BLOCKED"
                                ELSE "EXTENSION_API_LOAD_FAILED"
               /\ caught.details.attemptedUrls = urls
               /\ caught.details.cspViolation = lastCspViolation
               /\ reason = IF timeoutId = "fired" THEN TimeoutError ELSE caught
               /\ (Len(urls) = 1 /\ C8_RecordedForAttempted) => caught.code = "CSP_BLOCKED"
          /\ caught.code \in {"CSP_BLOCKED", "EXTENSION_API_LOAD_FAILED"} => loadedUrl = Null)
    /\ [][(pc = "loading" /\ scripts'[idx].st = "removed") =>
             IF \E k \in 1..Len(violations) : violations[k].blockedURI = urls[idx]
             THEN /\ lastCspViolation'.blockedURI = urls[idx]
                  /\ \E k \in 1..Len(violations) : violations[k] = lastCspViolation'
             ELSE lastCspViolation' = lastCspViolation]_vars

\* The only candidate failed with a violation recorded for it.
C8_Witness ==
    /\ Len(urls) = 1
    /\ pc = "done"
    /\ loadedUrl = Null
    /\ reason.code = "CSP_BLOCKED"
    /\ reason.details.cspViolation.blockedURI = urls[1]
    /\ reason.details.attemptedUrls = urls

\* C9 as stated: when the native-host check failed first, the facade is
\* rejected with NATIVE_HOST_HANDSHAKE_FAILED and the reported value as cause.
C9_Original ==
    (pc = "done" /\ nativePromise.st = "rejected") =>
        /\ state = "rejected"
        /\ reason.code = "NATIVE_HOST_HANDSHAKE_FAILED"
        /\ reason.cause = nativePromise.value

\* C9 as amended: when the native-host check failed first (failure callback
\* or throw), init() ends with NATIVE_HOST_HANDSHAKE_FAILED carrying the
\* reported value as cause and the facade is rejected with it, unless the
\* global timer had fired before and PLUGIN_LOAD_TIMEOUT stands; of several
\* callback calls only the first counts.
C9_NativeHostFailure ==
    /\ [](/\ (pc = "done" /\ nativePromise.st = "rejected") =>
               /\ state = "rejected"
               /\ caught.code = "NATIVE_HOST_HANDSHAKE_FAILED"
               /\ caught.cause = nativePromise.value
               /\ caught.details.loadedUrl = loadedUrl
               /\ reason = IF timeoutId = "fired" THEN TimeoutError ELSE caught
          /\ (pc = "done" /\ nativePromise.st = "resolved") =>
               caught.code # "NATIVE_HOST_HANDSHAKE_FAILED")
    /\ [][nativePromise.st \in {"resolved", "rejected"} => nativePromise' = nativePromise]_vars

\* The native-host check threw and the facade carries the thrown value.
C9_Witness ==
    /\ nativePromise.st = "rejected"
    /\ nativePromise.via = "throw"
    /\ state = "rejected"
    /\ reason.code = "NATIVE_HOST_HANDSHAKE_FAILED"
    /\ reason.cause = "native host is not installed"

\* C10 as stated: a loaded script without the bridge entry point rejects the
\* facade with EXTENSION_API_MISSING; nothing is posted, nothing invoked.
C10_Original ==
    (loadedUrl # Null /\ ~bridge) =>
        /\ state = "rejected"
        /\ reason.code = "EXTENSION_API_MISSING"
        /\ posted = <<>>
        /\ nativeCalls = 0

\* C10 as amended: in that case init() ends with EXTENSION_API_MISSING and
\* the facade is rejected with it, unless the global timer had fired before
\* and PLUGIN_LOAD_TIMEOUT stands; no echo request is posted, no echo wait
\* started and no native-host check invoked.
C10_ApiMissing ==
    (loadedUrl # Null /\ ~bridge) =>
        /\ pc = "done"
        /\ state = "rejected"
        /\ caught.code = "EXTENSION_API_MISSING"
        /\ caught.details.loadedUrl = loadedUrl
        /\ reason = IF timeoutId = "fired" THEN TimeoutError ELSE caught
        /\ posted = <<>>
        /\ ~echoListener
        /\ handshakeTimer = "unarmed"
        /\ nativeCalls = 0

\* The second candidate loaded without the entry point.
C10_Witness ==
    /\ Len(scripts) = 2
    /\ scripts[2].st = "loaded"
    /\ ~bridge
    /\ reason.code = "EXTENSION_API_MISSING"
    /\ posted = <<>>

\* The nine codes of the taxonomy.
CadesPluginErrorCodes ==
    {"UNKNOWN", "INVALID_OPTIONS", "PLUGIN_LOAD_TIMEOUT", "EXTENSION_API_LOAD_FAILED",
     "CSP_BLOCKED", "EXTENSION_API_MISSING", "HANDSHAKE_TIMEOUT",
     "NATIVE_HOST_HANDSHAKE_FAILED", "PLUGIN_OBJECT_MISSING"}

\* init() caught a value that is no CadesPluginError.
CaughtForeignValue == caught.kind \in {"Error", "value"}

\* C11 as stated: every rejection carries a CadesPluginError with one of the
\* nine codes and never INVALID_OPTIONS; a value caught by init() that is no
\* CadesPluginError is delivered as a rejection with code UNKNOWN and the
\* value as cause; every failure init() ends with shows as a rejection.
C11_Original ==
    /\ state = "rejected" =>
          /\ reason.kind = "CadesPluginError"
          /\ reason.code \in CadesPluginErrorCodes \ {"INVALID_OPTIONS"}
    /\ CaughtForeignValue =>
          /\ state = "rejected"
          /\ reason.code = "UNKNOWN"
          /\ reason.cause = caught.cause
    /\ (pc = "done" /\ caught.kind # "ok") => state = "rejected"

\* C11 as amended: every rejection carries a CadesPluginError with one of the
\* nine codes and never INVALID_OPTIONS; a value caught by init() that is no
\* CadesPluginError is delivered as a rejection with code UNKNOWN and the
\* value as cause (an Error's name in the details), unless the global timer
\* had fired before, in which case the value is dropped and
\* PLUGIN_LOAD_TIMEOUT stands; every failure init() ends with leaves the
\* facade rejected.
C11_ErrorTaxonomy ==
    /\ state = "rejected" =>
          /\ reason.kind = "CadesPluginError"
          /\ reason.code \in CadesPluginErrorCodes \ {"INVALID_OPTIONS"}
    /\ CaughtForeignValue =>
          /\ state = "rejected"
          /\ IF timeoutId = "fired"
             THEN reason = TimeoutError
             ELSE /\ reason.code = "UNKNOWN"
                  /\ reason.cause = caught.cause
                  /\ reason.details.name = caught.name
    /\ (pc = "done" /\ caught.kind # "ok") => state = "rejected"

\* win.postMessage threw a TypeError while the facade was pending: the facade
\* is rejected with UNKNOWN, the TypeError as cause.
C11_Witness ==
    /\ caught = Thrown("Error", "TypeError", "win.postMessage is not a function")
    /\ state = "rejected"
    /\ reason.code = "UNKNOWN"
    /\ reason.cause = "win.postMessage is not a function"
    /\ reason.details.name = "TypeError"

\* The step is a call of installCadesPlugin whose options carry an
\* extensionIds array that is empty or normalizes to nothing.
EmptyIdsCall ==
    /\ result' # result
    /\ result'.op = "installCadesPlugin"
    /\ supplied(result'.opts.extensionIds)
    /\ Len(normalizeExtensionIds(result'.opts.extensionIds.items)) = 0

\* The step created no script element, armed no timer, registered no
\* listener and left win.cadesplugin alone.
NothingStarted ==
    UNCHANGED <<scripts, timeoutId, handshakeTimer, cspListening, echoListener, facade,
                negotiations, pc, urls>>

\* C12 as stated: every call of installCadesPlugin with an extensionIds
\* array that is empty or normalizes to nothing throws INVALID_OPTIONS, and
\* has created no script element, armed no timer, registered no listener and
\* left win.cadesplugin unchanged; the default list is not used instead.
C12_Original ==
    [][EmptyIdsCall =>
          /\ result'.outcome = "threw"
          /\ result'.error.kind = "CadesPluginError"
          /\ result'.error.code = "INVALID_OPTIONS"
          /\ NothingStarted]_vars

\* C12 as amended: on a window that does not already hold a facade, every
\* call of installCadesPlugin with an extensionIds array that is empty or
\* normalizes to nothing throws INVALID_OPTIONS, and has created no script
\* element, armed no timer, registered no listener and left win.cadesplugin
\* unchanged; the default list is not used instead.  On a window that holds a
\* facade the call returns that facade without looking at the options, and
\* starts nothing either.
C12_EmptyExtensionIds ==
    [][EmptyIdsCall =>
          /\ IF facade
             THEN result'.outcome = "existing"
             ELSE /\ result'.outcome = "threw"
                  /\ result'.error.kind = "CadesPluginError"
                  /\ result'.error.code = "INVALID_OPTIONS"
          /\ NothingStarted]_vars

\* A list whose only entry is no extension id was thrown out on a fresh
\* window: nothing was created.
C12_Witness ==
    /\ result.op = "installCadesPlugin"
    /\ result.opts.extensionIds = JsArray(<<Str("not-an-extension-id")>>)
    /\ result.outcome = "threw"
    /\ result.error.code = "INVALID_OPTIONS"
    /\ result.error.details.invalidField = "extensionIds"
    /\ scripts = <<>>
    /\ timeoutId = "unarmed"
    /\ ~cspListening
    /\ ~facade

\* The last call was installCadesPlugin.
InstallCalled == result.op = "installCadesPlugin"

\* The step is a call of installCadesPlugin.
InstallCall == result' # result /\ result'.op = "installCadesPlugin"

ThrewInvalidOptions(r) ==
    /\ r.outcome = "threw"
    /\ r.error.kind = "CadesPluginError"
    /\ r.error.code = "INVALID_OPTIONS"

\* An entry of the 32-letter extension-id shape, in either case; an entry
\* that begins with chrome-extension://.
MatchesIdShape(entry) == entry.typeof = "string" /\ isExtensionId(entry.value)
BeginsWithScheme(entry) ==
    entry.typeof = "string" /\ startsWith(entry.value, "chrome-extension://")

\* The same after white space around the entry is removed.
UsableId(entry) == entry.typeof = "string" /\ isExtensionId(trim(entry.value))
UsableUrl(entry) ==
    entry.typeof = "string" /\ startsWith(trim(entry.value), "chrome-extension://")

NoUpperCase(text) == \A k \in 1..Len(text) : ~includes(UpperLetters, charAt(text, k))

\* C13 as stated, for a call r that left the candidate list u.
C13_Stated(r, u) ==
    /\ (/\ supplied(r.opts.extensionIds)
        /\ \E i \in 1..Len(r.opts.extensionIds.items) :
               ~MatchesIdShape(r.opts.extensionIds.items[i]))
          => ThrewInvalidOptions(r)
    /\ (/\ supplied(r.opts.extensionApiUrls)
        /\ \E i \in 1..Len(r.opts.extensionApiUrls.items) :
               ~BeginsWithScheme(r.opts.extensionApiUrls.items[i]))
          => ThrewInvalidOptions(r)
    /\ (r.outcome = "installed" /\ ~supplied(r.opts.extensionApiUrls))
          => \A i \in 1..Len(u) : NoUpperCase(u[i])

\* C13 as amended, for a call r on a window without a facade that left the
\* candidate list u.
C13_Amended(r, u) ==
    LET ids == r.opts.extensionIds
        apiUrls == r.opts.extensionApiUrls
        usableIds == SelectSeq(ids.items, UsableId)
        usableUrls == SelectSeq(apiUrls.items, UsableUrl)
    IN  /\ (supplied(ids) /\ Len(usableIds) = 0) => ThrewInvalidOptions(r)
        /\ (supplied(apiUrls) /\ Len(usableUrls) = 0) => ThrewInvalidOptions(r)
        /\ (/\ supplied(ids) \/ supplied(apiUrls)
            /\ supplied(ids) => Len(usableIds) > 0
            /\ supplied(apiUrls) => Len(usableUrls) > 0
            /\ ~supplied(r.opts.logLevel)
            /\ ~supplied(r.opts.timeoutMs)
            /\ ~supplied(r.opts.handshakeTimeoutMs))
              => /\ r.outcome = "installed"
                 /\ IF supplied(apiUrls)
                    THEN /\ Len(u) = Len(usableUrls)
                         /\ \A i \in 1..Len(u) : u[i] = trim(usableUrls[i].value)
                    ELSE /\ Len(u) = Len(usableIds)
                         /\ \A i \in 1..Len(u) :
                               /\ NoUpperCase(u[i])
                               /\ Len(u[i]) =
                                     Len(buildExtensionApiUrlFromId(trim(usableIds[i].value)))

\* C13 as stated: a call whose extensionIds has an entry that is not of the
\* extension-id shape, or whose extensionApiUrls has an entry that does not
\* begin with chrome-extension://, throws INVALID_OPTIONS, also when other
\* entries of the list are valid; accepted identifiers are in lowercase.
C13_Original ==
    [][InstallCall => C13_Stated(result', urls')]_vars

\* C13 as amended: on a window that holds no facade, a call throws
\* INVALID_OPTIONS whenever a supplied extensionIds has no entry that, with
\* surrounding white space removed, is of the extension-id shape, and
\* whenever a supplied extensionApiUrls has no entry that, trimmed, begins
\* with chrome-extension://.  Invalid entries of a list that has a valid
\* entry are skipped: the list is accepted and the candidates are its valid
\* entries, in order.  Accepted identifiers are in lowercase.  On a window
\* that holds a facade the call returns it and the lists are not looked at.
C13_OverrideEntries ==
    [][InstallCall =>
          IF facade
          THEN result'.outcome = "existing" /\ urls' = urls
          ELSE C13_Amended(result', urls')]_vars

\* A list with an invalid entry before an identifier in upper case was
\* accepted: the one candidate is built from the identifier in lowercase.
C13_Witness ==
    /\ InstallCalled
    /\ result.opts.extensionIds = JsArray(<<Str("abc"), Str(UpperCaseId)>>)
    /\ result.outcome = "installed"
    /\ urls = <<"chrome-extension://iifchhfnnmpdbibifmljnfjhpififfog/nmcades_plugin_api.js">>

\* A finite number strictly greater than zero.
FinitePositive(value) == value.typeof = "number" /\ value.special = "" /\ value.num > 0

\* The error names the field and carries the raw value the caller gave.
NamesField(r, field, raw) ==
    /\ ThrewInvalidOptions(r)
    /\ r.error.details.invalidField = field
    /\ r.error.details.invalidValue = raw

\* C14 as stated, for a call r that left the timeouts loadMs and handshakeMs.
C14_Stated(r, loadMs, handshakeMs) ==
    LET t == r.opts.timeoutMs
        h == r.opts.handshakeTimeoutMs
        badT == supplied(t) /\ ~FinitePositive(t)
        badH == supplied(h) /\ ~FinitePositive(h)
    IN  /\ (badT \/ badH) =>
              \/ badT /\ NamesField(r, "timeoutMs", t)
              \/ badH /\ NamesField(r, "handshakeTimeoutMs", h)
        /\ (r.outcome = "installed" /\ supplied(t)) => loadMs = t.num
        /\ (r.outcome = "installed" /\ supplied(h)) => handshakeMs = h.num
        /\ (~badT /\ ~badH /\ (supplied(t) \/ supplied(h))) => r.outcome = "installed"

\* C14 as stated: a call whose timeoutMs or handshakeTimeoutMs is supplied and
\* is zero, negative, NaN or infinite throws INVALID_OPTIONS, the details
\* naming the field with the raw value; a valid supplied value becomes the
\* timeout as it is.
C14_Original ==
    [][InstallCall => C14_Stated(result', loadTimeoutMs', handshakeTimeoutMs')]_vars

\* C14 as amended: on a window that holds no facade, a call whose timeoutMs
\* or handshakeTimeoutMs is supplied and is zero, negative, NaN or infinite
\* throws INVALID_OPTIONS, the details naming the field with the raw value; a
\* valid supplied value becomes the timeout as it is.  On a window that holds
\* a facade the call returns it and the timeouts stay as they are.
C14_TimeoutValidation ==
    [][InstallCall =>
          IF facade
          THEN /\ result'.outcome = "existing"
               /\ UNCHANGED <<loadTimeoutMs, handshakeTimeoutMs>>
          ELSE C14_Stated(result', loadTimeoutMs', handshakeTimeoutMs')]_vars

\* A handshake timeout of zero next to a valid overall timeout was thrown
\* out on a fresh window, named with its raw value.
C14_Witness ==
    /\ InstallCalled
    /\ result.opts.timeoutMs = JsNumber(100)
    /\ result.opts.handshakeTimeoutMs = JsNumber(0)
    /\ result.outcome = "threw"
    /\ result.error.code = "INVALID_OPTIONS"
    /\ result.error.details.invalidField = "handshakeTimeoutMs"
    /\ result.error.details.invalidValue = JsNumber(0)
    /\ ~facade
    /\ timeoutId = "unarmed"

\* The step is a call of installCadesPlugin that started a negotiation.
NegotiationStarted == InstallCall /\ result'.outcome = "installed"

\* The candidate list C15 states for the options and the user agent of a call.
C15_StatedUrls(opts, userAgent) ==
    IF supplied(opts.extensionApiUrls)
    THEN normalizeExtensionApiUrls(opts.extensionApiUrls.items)
    ELSE IF supplied(opts.extensionIds)
    THEN LET ids == normalizeExtensionIds(opts.extensionIds.items)
         IN  [i \in 1..Len(ids) |-> "chrome-extension://" \o ids[i] \o "/nmcades_plugin_api.js"]
    ELSE buildCryptoProExtensionApiUrls(detectBrowser(userAgent))

\* C15: the candidate list of a negotiation is the normalized extensionApiUrls
\* when that option was supplied; otherwise the URLs built from the normalized
\* extensionIds, in their order, when that option was supplied; otherwise the
\* default list of the detected browser.  With both overrides supplied the
\* list is the URL override alone.
C15_CandidatePrecedence ==
    [][NegotiationStarted =>
          /\ urls' = C15_StatedUrls(result'.opts, result'.userAgent)
          /\ (supplied(result'.opts.extensionApiUrls) /\ supplied(result'.opts.extensionIds)) =>
                \A i \in 1..Len(urls') :
                    /\ \E j \in 1..Len(result'.opts.extensionApiUrls.items) :
                           urls'[i] = trim(result'.opts.extensionApiUrls.items[j].value)
                    /\ ~includes(urls'[i], CRYPTOPRO_EXTENSION_IDS.manifestV2)
                    /\ ~includes(urls'[i], CRYPTOPRO_EXTENSION_IDS.manifestV3)]_vars

\* Both overrides were supplied and the negotiation runs over the URL
\* override alone.
C15_Witness ==
    /\ InstallCalled
    /\ result.outcome = "installed"
    /\ result.opts.extensionApiUrls = JsArray(<<Str(UrlPool[1])>>)
    /\ result.opts.extensionIds = JsArray(<<Str(UpperCaseId)>>)
    /\ urls = <<UrlPool[1]>>
    /\ Len(scripts) = 1
    /\ scripts[1].src = UrlPool[1]

\* C16: the overall timeout of a negotiation is the caller's timeoutMs when
\* supplied; otherwise the page global cadesplugin_load_timeout when that is a
\* finite positive number; otherwise 20000 ms.  The handshake timeout is the
\* caller's handshakeTimeoutMs when supplied, otherwise the smaller of 5000 ms
\* and the overall timeout, so the default never exceeds the overall timeout.
C16_TimeoutDefaults ==
    [][NegotiationStarted =>
          LET t == result'.opts.timeoutMs
              h == result'.opts.handshakeTimeoutMs
              g == result'.globalTimeout
          IN  /\ loadTimeoutMs' =
                    IF supplied(t) THEN t.num
                    ELSE IF FinitePositive(g) THEN g.num
                    ELSE 20000
              /\ handshakeTimeoutMs' =
                    IF supplied(h) THEN h.num
                    ELSE IF 5000 < loadTimeoutMs' THEN 5000 ELSE loadTimeoutMs'
              /\ ~supplied(h) => handshakeTimeoutMs' <= loadTimeoutMs'
              /\ timeoutId' = "armed"]_vars

\* The caller supplied a timeout of 100 ms on a page whose global asks for
\* 45000 ms: the overall timeout is 100 ms and so is the default handshake
\* timeout.
C16_Witness ==
    /\ InstallCalled
    /\ result.outcome = "installed"
    /\ result.opts.timeoutMs = JsNumber(100)
    /\ ~supplied(result.opts.handshakeTimeoutMs)
    /\ result.globalTimeout = JsNumber(45000)
    /\ loadTimeoutMs = 100
    /\ handshakeTimeoutMs = 100

\* The step is a call of CreateObjectAsync.
CreateObjectAsyncCall == result' # result /\ result'.op = "CreateObjectAsync"

\* C17: CreateObjectAsync can be called in every handshake state once the
\* page holds the facade.  A call looks at the capability reference as it is
\* at that moment: with no reference that provides CreateObjectAsync it throws
\* PLUGIN_OBJECT_MISSING, otherwise it passes the same name to the reference.
\* The call changes neither the handshake state nor the reference, and a
\* later publication of the reference runs no earlier call.
C17_CallTimeLookup ==
    /\ [](facade => \A name \in ObjectNames : ENABLED CreateObjectAsync(name))
    /\ [][/\ CreateObjectAsyncCall =>
                /\ IF pluginObject = "objWithCreateObjectAsync"
                   THEN /\ result'.outcome = "delegated"
                        /\ result'.passed = result'.name
                   ELSE /\ result'.outcome = "threw"
                        /\ result'.error.kind = "CadesPluginError"
                        /\ result'.error.code = "PLUGIN_OBJECT_MISSING"
                        /\ result'.passed = Null
                /\ UNCHANGED <<pluginObject, pc, settled, state, reason, timeoutId,
                               handshakeTimer, echoListener, nativeCalls, nativePromise,
                               scripts, facade, negotiations>>
          /\ pluginObject' # pluginObject => result' = result]_vars

\* A call thrown out while the facade was pending; the reference was
\* published afterwards and the call was not run.
C17_Witness ==
    /\ result.op = "CreateObjectAsync"
    /\ result.outcome = "threw"
    /\ result.error.code = "PLUGIN_OBJECT_MISSING"
    /\ result.passed = Null
    /\ pluginObject = "objWithCreateObjectAsync"
    /\ state = "pending"

\* C18 as stated: once a reference has been published through set(), no
\* later step changes it, so a resolved facade has a usable reference.
C18_Original ==
    /\ [](state = "resolved" => pluginObject = "objWithCreateObjectAsync")
    /\ [][pluginObject # "null" => pluginObject' = pluginObject]_vars

\* C18 as amended: the reference is not write-once.  Whenever the facade is
\* published, a set() call with any object, or with null, stores that value,
\* whatever was stored before and whether or not the facade has settled.
\* What holds is that no step of the negotiation writes the reference, and
\* that the facade resolves only at a moment when the reference provides
\* CreateObjectAsync.
C18_ReferenceOverwritten ==
    /\ [](facade => \A obj \in PluginObjects :
                       ENABLED (set_pluginObject(obj) /\ pluginObject' = obj))
    /\ [][/\ pluginObject' # pluginObject =>
                UNCHANGED <<pc, settled, state, reason, timeoutId, caught, nativePromise>>
          /\ (state = "pending" /\ state' = "resolved") =>
                pluginObject' = "objWithCreateObjectAsync"]_vars

\* A facade that has resolved and whose reference a later set(null) removed.
C18_Witness ==
    /\ state = "resolved"
    /\ caught.kind = "ok"
    /\ pluginObject = "null"

\* No step but a call of installCadesPlugin starts a negotiation, and once
\* init() has ended in rejection it stays ended: no script element is added
\* and no timer armed.
NoRetryByItself ==
    /\ ~InstallCall => negotiations' = negotiations
    /\ (pc = "done" /\ state = "rejected" /\ ~InstallCall) =>
          /\ pc' = "done"
          /\ state' = "rejected"
          /\ scripts' = scripts
          /\ posted' = posted
          /\ timeoutId' = timeoutId
          /\ handshakeTimer' = handshakeTimer

\* The step is a call of installCadesPlugin on the window whose facade has
\* been rejected.
ReinvokedAfterRejection == InstallCall /\ state = "rejected"

\* The call started a negotiation: a new closure, a pending facade, a timer
\* and the first script element of a new candidate loop.
FreshAttempt ==
    /\ result'.outcome = "installed"
    /\ negotiations' = negotiations + 1
    /\ pc' = "loading"
    /\ state' = "pending"
    /\ settled' = FALSE
    /\ timeoutId' = "armed"
    /\ Len(scripts') = Len(scripts) + 1

\* The call returned the facade of the window and started nothing.
ReturnedExisting ==
    /\ result'.outcome = "existing"
    /\ UNCHANGED <<negotiations, pc, state, reason, settled, scripts, urls, idx,
                   timeoutId, handshakeTimer, cspListening, echoListener,
                   posted, facade, pluginObject, loadTimeoutMs, handshakeTimeoutMs>>

\* C19 as stated: a negotiation that ended in rejection is not retried by
\* itself, and a later call of installCadesPlugin on the same window, with
\* options that pass validation, starts a new candidate loop and handshake
\* and returns a facade that is pending.
C19_Original ==
    [][/\ NoRetryByItself
       /\ (ReinvokedAfterRejection /\ optionsError(result'.opts) = NoReason) =>
             FreshAttempt]_vars

\* C19 as amended: a negotiation that ended in rejection is not retried by
\* itself.  A later call of installCadesPlugin on the same window makes no
\* fresh attempt while the window holds the facade: it returns that facade,
\* which stays rejected with the same reason, and starts no candidate loop,
\* timer or handshake.  Only on a window that did not take the facade does a
\* later call with valid options start a fresh attempt with a pending facade.
C19_NoFreshAttempt ==
    [][/\ NoRetryByItself
       /\ ReinvokedAfterRejection =>
             IF facade
             THEN ReturnedExisting
             ELSE IF optionsError(result'.opts) = NoReason
             THEN FreshAttempt
             ELSE result'.outcome = "threw" /\ NothingStarted]_vars

\* installCadesPlugin was called again after the negotiation had been
\* rejected for a missing extension script: the facade returned is the
\* rejected one and the one script element is the old one.
C19_Witness ==
    /\ InstallCalled
    /\ result.outcome = "existing"
    /\ pc = "done"
    /\ state = "rejected"
    /\ reason.code = "EXTENSION_API_LOAD_FAILED"
    /\ negotiations = 1
    /\ Len(scripts) = 1
    /\ scripts[1].st = "removed"

\* The step is a call of installCadesPlugin on a window that holds a facade.
CallOnFacade == InstallCall /\ facade

HasExtensionForm(url) ==
    /\ Len(url) = 19 + 32 + 22
    /\ SubSeq(url, 1, 19) = "chrome-extension://"
    /\ \A k \in 20..51 : includes("abcdefghijklmnop", charAt(url, k))
    /\ SubSeq(url, 52, 73) = "/nmcades_plugin_api.js"

\* C29 as stated: every candidate URL of a negotiation, and so every script
\* element it creates, has the form
\* chrome-extension://<32-letter id>/nmcades_plugin_api.js, whether the list
\* came from the URL override, the identifier override or the browser default.
C29_Original ==
    [][NegotiationStarted =>
          /\ \A i \in 1..Len(urls') : HasExtensionForm(urls'[i])
          /\ \A i \in 1..Len(scripts') : HasExtensionForm(scripts'[i].src)]_vars

\* C29 as amended: every candidate URL of a negotiation, and so every script
\* element it creates, begins with chrome-extension://.  A URL built from the
\* identifier override or from the browser default has the form
\* chrome-extension://<32-letter id>/nmcades_plugin_api.js; an entry of the URL
\* override is taken as the caller wrote it, white space around it removed,
\* whatever identifier and path follow the scheme.
C29_CandidateForm ==
    [][NegotiationStarted =>
          /\ urls' # <<>>
          /\ \A i \in 1..Len(urls') : startsWith(urls'[i], "chrome-extension://")
          /\ \A i \in 1..Len(scripts') : \E j \in 1..Len(urls') : scripts'[i].src = urls'[j]
          /\ IF supplied(result'.opts.extensionApiUrls)
             THEN \A i \in 1..Len(urls') :
                      \E j \in 1..Len(result'.opts.extensionApiUrls.items) :
                          urls'[i] = trim(result'.opts.extensionApiUrls.items[j].value)
             ELSE \A i \in 1..Len(urls') : HasExtensionForm(urls'[i])]_vars

\* A negotiation over an identifier override written in upper case: the one
\* script element has the identifier in lower case and the script name.
C29_Witness ==
    /\ InstallCalled
    /\ result.outcome = "installed"
    /\ ~supplied(result.opts.extensionApiUrls)
    /\ result.opts.extensionIds = JsArray(<<Str(UpperCaseId)>>)
    /\ Len(scripts) = 1
    /\ scripts[1].src = "chrome-extension://iifchhfnnmpdbibifmljnfjhpififfog/nmcades_plugin_api.js"

\* The family names of detectBrowser.
BrowserNames == {"Chrome", "Edg", "YaBrowser", "Opera", "Other"}

OperaUrl == "chrome-extension://epebfcehmdedogndhlcacafjaacknbcm/nmcades_plugin_api.js"
ManifestV2Url == "chrome-extension://iifchhfnnmpdbibifmljnfjhpififfog/nmcades_plugin_api.js"
ManifestV3Url == "chrome-extension://pfhgbfnnjiafkhfdkmpiflachepdcjod/nmcades_plugin_api.js"

\* The list C30 states for a browser family.
C30_StatedUrls(name) ==
    IF name \in {"Opera", "YaBrowser"}
    THEN <<OperaUrl, ManifestV2Url, ManifestV3Url>>
    ELSE <<ManifestV2Url, ManifestV3Url>>

\* C30: buildCryptoProExtensionApiUrls gives the opera, manifestV2 and
\* manifestV3 URLs, in this order, for Opera and YaBrowser and the manifestV2
\* and manifestV3 URLs for Chrome, Edg and Other, each of the form
\* chrome-extension://<id>/nmcades_plugin_api.js; a negotiation without
\* override runs over the list of the family detected from the user agent, so
\* the first identifier tried depends on the family.
C30_DefaultOrder ==
    /\ [](\A name \in BrowserNames :
             /\ buildCryptoProExtensionApiUrls([name |-> name]) = C30_StatedUrls(name)
             /\ \A i \in 1..Len(buildCryptoProExtensionApiUrls([name |-> name])) :
                    HasExtensionForm(buildCryptoProExtensionApiUrls([name |-> name])[i]))
    /\ [][(/\ NegotiationStarted
           /\ ~supplied(result'.opts.extensionApiUrls)
           /\ ~supplied(result'.opts.extensionIds)) =>
             /\ urls' = C30_StatedUrls(detectBrowser(result'.userAgent).name)
             /\ scripts'[Len(scripts')].src =
                   (IF detectBrowser(result'.userAgent).name \in {"Opera", "YaBrowser"}
                    THEN OperaUrl ELSE ManifestV2Url)]_vars

\* A negotiation in Yandex Browser without override: the first script element
\* is the one of the opera identifier.
C30_Witness ==
    /\ InstallCalled
    /\ result.outcome = "installed"
    /\ result.opts = NoOptions
    /\ detectBrowser(result.userAgent).name = "YaBrowser"
    /\ Len(urls) = 3
    /\ scripts = <<scriptElement(OperaUrl)>>

\* The step is a call of set_log_level: the record of the call is the last
\* one, no script element was touched, and the call left a trace.
SetLogLevelCall ==
    /\ result'.op = "set_log_level"
    /\ scripts' = scripts
    /\ <<result, posted, logged, currentLogLevel>>' # <<result, posted, logged, currentLogLevel>>

\* The message to the extension for each of the three levels.
LevelMessage(level) ==
    IF level = JsNumber(1) THEN "set_log_level=error"
    ELSE IF level = JsNumber(2) THEN "set_log_level=info"
    ELSE "set_log_level=debug"

ThreeLevels == {JsNumber(1), JsNumber(2), JsNumber(4)}

\* The logger was called once more, with an error that names the value.
ErrorReported ==
    /\ Len(logged') = Len(logged) + 1
    /\ SubSeq(logged', 1, Len(logged)) = logged
    /\ logged'[Len(logged')].level = "error"
    /\ startsWith(logged'[Len(logged')].message, "Incorrect log_level: ")

\* The call returned and touched nothing of the handshake but the messages.
ReturnedQuietly ==
    /\ result'.outcome = "returned"
    /\ result'.error = NoReason
    /\ UNCHANGED <<pc, urls, idx, scripts, settled, state, reason, pluginObject, facade,
                   timeoutId, handshakeTimer, echoListener, negotiations>>

\* C24 as stated: set_log_level with a value other than 1, 2 or 4 leaves
\* current_log_level unchanged, posts nothing, reports an error through the
\* logger and does not throw; with 1, 2 or 4 it stores the value and posts
\* exactly one message, set_log_level=error, =info or =debug.
C24_Original ==
    [][SetLogLevelCall =>
          /\ ReturnedQuietly
          /\ IF result'.arg \in ThreeLevels
             THEN /\ currentLogLevel' = result'.arg
                  /\ posted' = Append(posted, LevelMessage(result'.arg))
             ELSE /\ currentLogLevel' = currentLogLevel
                  /\ posted' = posted
                  /\ ErrorReported]_vars

\* The level stored is a number below 1, which only an assignment to
\* current_log_level can produce.
BelowErrorLevel(current) ==
    current.typeof = "number" /\ current.special = "" /\ current.num < 1

\* C24 as amended: set_log_level with a value other than 1, 2 or 4 leaves
\* current_log_level unchanged, posts nothing and does not throw; it reports
\* an error through the logger unless current_log_level holds a number below 1
\* (assigned directly), in which case nothing is reported.  With 1, 2 or 4 it
\* stores the value, reports nothing and calls win.postMessage exactly once,
\* with set_log_level=error, =info or =debug; when that call throws, the
\* failure is dropped and no message is posted.
C24_SetLogLevel ==
    [][SetLogLevelCall =>
          /\ ReturnedQuietly
          /\ IF result'.arg \in ThreeLevels
             THEN /\ currentLogLevel' = result'.arg
                  /\ logged' = logged
                  /\ IF result'.ignored = NoReason
                     THEN posted' = Append(posted, LevelMessage(result'.arg))
                     ELSE posted' = posted
             ELSE /\ currentLogLevel' = currentLogLevel
                  /\ posted' = posted
                  /\ result'.ignored = NoReason
                  /\ IF BelowErrorLevel(currentLogLevel)
                     THEN logged' = logged
                     ELSE /\ ErrorReported
                          /\ logged'[Len(logged')].message =
                                "Incorrect log_level: " \o String(result'.arg)]_vars

\* set_log_level(3) on a facade installed with the default level: the level
\* is still 1, the logger has the error and nothing was posted.
C24_Witness ==
    /\ result.op = "set_log_level"
    /\ result.arg = JsNumber(3)
    /\ currentLogLevel = JsNumber(1)
    /\ logged = <<[level |-> "error", message |-> "Incorrect log_level: 3"]>>
    /\ posted = <<>>
    /\ pc = "loading"

\* The options of the call name a log level that is none of the three.
UnknownLogLevel(opts) == supplied(opts.logLevel) /\ opts.logLevel \notin ThreeLevels

\* C25 as stated: installCadesPlugin with a logLevel outside 1, 2, 4 fails
\* with INVALID_OPTIONS, the default is 1, and the log level of the facade is
\* one of the three values in every state.
C25_Original ==
    /\ [][InstallCall =>
             IF UnknownLogLevel(result'.opts)
             THEN ThrewInvalidOptions(result')
             ELSE (result'.outcome = "installed" /\ ~supplied(result'.opts.logLevel)) =>
                      currentLogLevel' = JsNumber(1)]_vars
    /\ [](facade => currentLogLevel \in ThreeLevels)

\* C25 as amended: on a window that holds no facade, installCadesPlugin with a
\* logLevel outside 1, 2, 4 fails with INVALID_OPTIONS naming logLevel and its
\* value, and otherwise the facade starts with the logLevel given, 1 when none
\* was given; on a window that holds a facade the call returns it and the
\* level stays.  set_log_level never stores a value outside the three.  The
\* setter of current_log_level stores whatever is assigned, so the level is
\* one of the three only as long as nothing else was assigned.
C25_LogLevelDomain ==
    /\ [][InstallCall =>
             IF facade
             THEN result'.outcome = "existing" /\ currentLogLevel' = currentLogLevel
             ELSE IF UnknownLogLevel(result'.opts)
             THEN /\ ThrewInvalidOptions(result')
                  /\ result'.error.details.invalidField = "logLevel"
                  /\ result'.error.details.invalidValue = result'.opts.logLevel
                  /\ ~facade'
             ELSE /\ result'.outcome = "installed"
                  /\ currentLogLevel' = (IF supplied(result'.opts.logLevel)
                                         THEN result'.opts.logLevel ELSE JsNumber(1))
                  /\ currentLogLevel' \in ThreeLevels]_vars
    /\ [][currentLogLevel' # currentLogLevel =>
             \/ currentLogLevel' \in ThreeLevels
             \/ result'.op = "current_log_level" /\ currentLogLevel' = result'.arg]_vars
    /\ [](facade => \A level \in LogLevelArgs :
                        ENABLED (set_current_log_level(level) /\ currentLogLevel' = level))

\* current_log_level = 3 on a facade installed with level 2.
C25_Witness ==
    /\ facade
    /\ result.op = "current_log_level"
    /\ result.arg = JsNumber(3)
    /\ currentLogLevel = JsNumber(3)
    /\ logged = <<>>

\* The step is a call of getLastError.
GetLastErrorCall == result'.op = "getLastError" /\ result' # result

FallbackMessage == "CryptoPro plugin is not available"

\* The message C26 derives from each exception: the message of an error, the
\* text of a string, the JSON text of another object; the fixed text when
\* that gives nothing.
C26_MessageOf(e) ==
    IF e = Exception("object", TRUE, Str("Access denied"), "", "{}") THEN "Access denied"
    ELSE IF e = Exception("object", TRUE, Num("42"), "", "{\"message\":42}")
    THEN "{\"message\":42}"
    ELSE IF e.typeof = "string" /\ e.text = "boom" THEN "boom"
    ELSE IF e.typeof = "object" /\ e.json = "throws" THEN "[object Object]"
    ELSE FallbackMessage

ReleaseCall == result'.op = "ReleasePluginObjects" /\ result' # result

\* C27: ReleasePluginObjects looks up win.cpcsp_chrome_nmcades and its
\* ReleasePluginObjects at the call and returns what that returns; without
\* the bridge or without the entry point it throws EXTENSION_API_MISSING.  It
\* can be called in every state of the handshake and changes nothing of it.
C27_ReleasePluginObjects ==
    /\ [][ReleaseCall =>
             /\ UNCHANGED handshakeVars
             /\ UNCHANGED <<negotiations, currentLogLevel, logged>>
             /\ IF result'.native.st = "returns"
                THEN /\ result'.outcome = "returned"
                     /\ result'.returned = result'.native.value.value
                     /\ result'.error = NoReason
                ELSE /\ result'.outcome = "threw"
                     /\ result'.error.kind = "CadesPluginError"
                     /\ result'.error.code = "EXTENSION_API_MISSING"]_vars
    /\ [](facade => \A api \in ReleaseEntryPoints \ {NoEntryPoint} :
                        ENABLED ReleasePluginObjects(api))
    /\ [](facade /\ ~bridge => ENABLED ReleasePluginObjects(NoEntryPoint))

\* ReleasePluginObjects on the resolved facade, in a window whose bridge has
\* check_chrome_plugin and no ReleasePluginObjects: EXTENSION_API_MISSING, and
\* the facade is still resolved.
C27_Witness ==
    /\ result.op = "ReleasePluginObjects"
    /\ result.outcome = "threw"
    /\ result.error.code = "EXTENSION_API_MISSING"
    /\ result.native.st = "missing"
    /\ bridge
    /\ state = "resolved"
    /\ reason = NoReason


(***************************************************************************)
(* async_spawn: the trampoline that drives a generator.  The generator is  *)
(* a program: yields, then one final operation.  An operation is           *)
(*   yield  a plain value, or an awaitable that fulfils or rejects, inside *)
(*          or outside a try/catch of the generator (catches),             *)
(*   return a value, the value last received, or an awaitable,             *)
(*   raise  an error.                                                      *)
(* The promise chain of step is kept as the state of the run: awaiting     *)
(* (the then-callbacks of a yielded value are registered), adopting (the   *)
(* promise follows a returned awaitable), fulfilled, rejected.             *)
(***************************************************************************)
Op(op, kind, fate, value, catches, what) ==
    [op |-> op, kind |-> kind, fate |-> fate, value |-> value, catches |-> catches,
     what |-> what]

\* const generator = generatorFunc(args), with the parameters spread.
generatorParamsSpread(args) == args

\* const generator = generatorFunc(args): one parameter, the rest array.
generatorParams(args) == <<args>>

\* generator[verb](arg): the outcome of resuming the generator where it is
\* suspended.  An error thrown in at a yield outside a try/catch leaves the
\* generator; anything else runs the next operation of the program.
generatorResume(sp, verb, arg) ==
    LET handled == verb = "next" \/ sp.program[sp.at - 1].catches
        op == sp.program[sp.at]
    IN  IF ~handled
        THEN [out |-> "throw", value |-> arg, awaited |-> NoAwaited]
        ELSE IF op.op = "yield"
        THEN [out |-> "yield", value |-> op.value,
              awaited |-> [kind |-> op.kind, fate |-> op.fate, value |-> op.value,
                           settled |-> FALSE]]
        ELSE IF op.op = "raise"
        THEN [out |-> "throw", value |-> op.value, awaited |-> NoAwaited]
        ELSE IF op.what = "awaitable"
        THEN [out |-> "done", value |-> op.value,
              awaited |-> [kind |-> "promise", fate |-> op.fate, value |-> op.value,
                           settled |-> FALSE]]
        ELSE [out |-> "done", value |-> IF op.what = "last" THEN arg ELSE op.value,
              awaited |-> NoAwaited]

\* return Promise.reject(err), with an error of its own.
rejectedGeneric(sp, err) == [sp EXCEPT !.st = "rejected", !.value = "Error"]

\* return Promise.reject(err)
rejected(sp, err) == [sp EXCEPT !.st = "rejected", !.value = err]

\* step(verb, arg): one call on the generator and what becomes of its result.
step(sp, verb, arg) ==
    LET r == generatorResume(sp, verb, arg)
        called == [sp EXCEPT !.calls = Append(@, [verb |-> verb, arg |-> arg])]
    IN  IF r.out = "throw"
        THEN rejected(called, r.value)
        ELSE IF r.out = "done" /\ r.awaited.kind = "promise"
        THEN [called EXCEPT !.st = "adopting", !.awaited = r.awaited]
        ELSE IF r.out = "done"
        THEN [called EXCEPT !.st = "fulfilled", !.value = r.value]
        ELSE [called EXCEPT !.st = "awaiting", !.at = sp.at + 1, !.awaited = r.awaited]

\* Every outcome of a yielded value resumes the generator with next.
verbNext(awaited) == "next"

\* .then((val) => step('next', val), (err) => step('throw', err))
verbOf(awaited) == IF awaited.fate = "reject" THEN "throw" ELSE "next"

\* Promise.resolve(result.value).then(...): the callbacks run once the value
\* is settled; a value that is not awaitable is settled at once.
hasSettled(awaited) == awaited.kind = "plain" \/ awaited.settled

\* cadesplugin.async_spawn(generatorFunc, ...args), called on the facade
\* that installCadesPlugin returned.
async_spawn(program, args) ==
    /\ negotiations > 0
    /\ spawn.st = "none"
    /\ spawn' = step([NoSpawn EXCEPT !.program = program, !.args = args,
                                     !.params = generatorParams(args), !.at = 1],
                     "next", Undefined)
    /\ UNCHANGED handshakeVars
    /\ UNCHANGED <<loadTimeoutMs, handshakeTimeoutMs, negotiations, result, writable,
                   currentLogLevel, logged, client, util, ext, twin>>

\* The awaitable that the run waits for settles (the environment).
AwaitableSettles ==
    /\ spawn.st \in {"awaiting", "adopting"}
    /\ spawn.awaited.kind = "promise"
    /\ ~spawn.awaited.settled
    /\ spawn' = [spawn EXCEPT !.awaited.settled = TRUE]
    /\ UNCHANGED handshakeVars
    /\ UNCHANGED <<loadTimeoutMs, handshakeTimeoutMs, negotiations, result, writable,
                   currentLogLevel, logged, client, util, ext, twin>>

\* The then-callback of the yielded value runs: the next step.
SpawnStep ==
    /\ spawn.st = "awaiting"
    /\ hasSettled(spawn.awaited)
    /\ spawn' = step(spawn, verbOf(spawn.awaited), spawn.awaited.value)
    /\ UNCHANGED handshakeVars
    /\ UNCHANGED <<loadTimeoutMs, handshakeTimeoutMs, negotiations, result, writable,
                   currentLogLevel, logged, client, util, ext, twin>>

\* Promise.resolve(result.value) of a finished generator that returned an
\* awaitable: the promise takes the outcome of that awaitable.
SpawnAdopts ==
    /\ spawn.st = "adopting"
    /\ spawn.awaited.settled
    /\ spawn' = [spawn EXCEPT !.st = IF spawn.awaited.fate = "reject"
                                     THEN "rejected" ELSE "fulfilled",
                              !.value = spawn.awaited.value]
    /\ UNCHANGED handshakeVars
    /\ UNCHANGED <<loadTimeoutMs, handshakeTimeoutMs, negotiations, result, writable,
                   currentLogLevel, logged, client, util, ext, twin>>

(***************************************************************************)
(* The trampoline alone: one call of installCadesPlugin, then one call of  *)
(* async_spawn over generators of up to MaxYields yields.                  *)
(***************************************************************************)
MaxYields == 2

YieldOps ==
    {Op("yield", "plain", "fulfil", v, c, "none") : v \in {"y1", "y2"}, c \in BOOLEAN}
    \cup {Op("yield", "promise", f, v, c, "none") :
              f \in {"fulfil", "reject"}, v \in {"y1", "y2"}, c \in BOOLEAN}

FinalOps ==
    {Op("return", "plain", "fulfil", "r", FALSE, "value"),
     Op("return", "plain", "fulfil", Undefined, FALSE, "last"),
     Op("return", "promise", "fulfil", "p", FALSE, "awaitable"),
     Op("return", "promise", "reject", "q", FALSE, "awaitable"),
     Op("raise", "plain", "fulfil", "x", FALSE, "none")}

RECURSIVE YieldSeqs(_)
YieldSeqs(n) ==
    IF n = 0 THEN {<<>>}
    ELSE YieldSeqs(n - 1) \cup {Append(ys, y) : ys \in YieldSeqs(n - 1), y \in YieldOps}

Programs == {Append(ys, final) : ys \in YieldSeqs(MaxYields), final \in FinalOps}

\* The arguments after the generator function: none, or two.
SpawnArgs == {<<>>, <<"a", "b">>}

SpawnNext ==
    \/ /\ pc = "idle"
       /\ installCadesPlugin(NoOptions, JsUndefined, ChromeUserAgent)
    \/ \E program \in Programs, args \in SpawnArgs : async_spawn(program, args)
    \/ AwaitableSettles
    \/ SpawnStep
    \/ SpawnAdopts

SpawnSpec == Init /\ [][SpawnNext]_vars


(***************************************************************************)
(* Claims about async_spawn.                                               *)
(***************************************************************************)
\* The run of async_spawn has got past the k-th yield of the computation.
Yielded(k) == k < Len(spawn.program) /\ spawn.at > k

\* The k-th yield hands out an awaitable which rejects.
YieldsRejection(k) ==
    /\ spawn.program[k].kind = "promise"
    /\ spawn.program[k].fate = "reject"

\* The promise of async_spawn has its final outcome.
SpawnSettled == spawn.st \in {"fulfilled", "rejected"}

\* C21 as stated: whenever the computation has yielded an awaitable which
\* rejects, the final outcome of the promise of async_spawn is that rejection.
C21_Original ==
    \A k \in 1..MaxYields :
        (Yielded(k) /\ YieldsRejection(k) /\ SpawnSettled)
            => (spawn.st = "rejected" /\ spawn.value = spawn.program[k].value)

\* Nothing follows a rejection: the promise of async_spawn keeps its outcome
\* and the generator is not called again.
RejectionIsFinal == [][spawn.st = "rejected" => spawn' = spawn]_vars

\* C21: when the computation yields an awaitable which rejects, and does not
\* handle the error thrown into it at that yield, the promise of async_spawn
\* is pending until the rejection is delivered, then rejected with that
\* rejection by the one call that threw it in, and nothing is delivered in
\* addition: the rejected promise never changes.
C21_UnhandledRejection ==
    /\ [](\A k \in 1..MaxYields :
            (Yielded(k) /\ YieldsRejection(k) /\ ~spawn.program[k].catches)
                => \/ spawn.st = "awaiting" /\ Len(spawn.calls) = k
                   \/ /\ spawn.st = "rejected"
                      /\ spawn.value = spawn.program[k].value
                      /\ Len(spawn.calls) = k + 1
                      /\ spawn.calls[k + 1] = [verb |-> "throw", arg |-> spawn.program[k].value])
    /\ RejectionIsFinal

\* A run rejected by the rejection of its second yield, after a first yield
\* that fulfilled.
C21_Witness ==
    /\ Yielded(2)
    /\ YieldsRejection(2)
    /\ ~spawn.program[2].catches
    /\ ~YieldsRejection(1)
    /\ spawn.st = "rejected"
    /\ spawn.value = spawn.program[2].value


\* The generator function was called with one parameter, the array of the
\* arguments that followed it in the call of async_spawn.
OneArrayParameter ==
    spawn.st # "none" => (Len(spawn.params) = 1 /\ spawn.params[1] = spawn.args)

\* The first call on the generator is next(undefined); the call after a
\* yield whose value fulfilled (or was no awaitable) is next with that value.
FedBack ==
    \A k \in 1..Len(spawn.calls) :
        IF k = 1
        THEN spawn.calls[k] = [verb |-> "next", arg |-> Undefined]
        ELSE spawn.program[k - 1].fate = "fulfil"
                => spawn.calls[k] = [verb |-> "next", arg |-> spawn.program[k - 1].value]

\* The generator ran its final operation, a return, at its last call.
Returned ==
    LET n == Len(spawn.program)
    IN  /\ Len(spawn.calls) = n
        /\ spawn.program[n].op = "return"
        /\ (n > 1 /\ spawn.calls[n].verb = "throw") => spawn.program[n - 1].catches

\* The promise of async_spawn is resolved with the return value of the
\* generator: fulfilled with it, or following it when it is an awaitable.
ResolvesWithReturnValue ==
    LET n == Len(spawn.program)
        final == spawn.program[n]
    IN  /\ spawn.st = "fulfilled" => Returned
        /\ (spawn.st # "none" /\ Returned) =>
              IF final.what = "awaitable"
              THEN IF spawn.awaited.settled /\ spawn.st # "adopting"
                   THEN /\ spawn.st = (IF final.fate = "reject" THEN "rejected" ELSE "fulfilled")
                        /\ spawn.value = final.value
                   ELSE spawn.st = "adopting"
              ELSE /\ spawn.st = "fulfilled"
                   /\ spawn.value = (IF final.what = "last" THEN spawn.calls[n].arg
                                     ELSE final.value)

\* A step is one call on the generator, made only when the value yielded at
\* the step before has settled.
StepByStep ==
    [][Len(spawn'.calls) # Len(spawn.calls)
          => /\ Len(spawn'.calls) = Len(spawn.calls) + 1
             /\ Len(spawn.calls) > 0
                   => (spawn.awaited.kind = "plain" \/ spawn.awaited.settled)]_vars

\* C22: async_spawn calls the generator function with exactly one parameter,
\* the array of the arguments that followed it; it drives the computation
\* step by step, feeds the fulfilled value of each yielded awaitable (or the
\* yielded value itself) back in as the result of that yield, never starts a
\* step before the value yielded at the step before has settled, and its
\* promise resolves with the final return value of the computation.
C22_Trampoline ==
    /\ [](OneArrayParameter /\ FedBack /\ ResolvesWithReturnValue)
    /\ StepByStep

\* A run over an awaitable and a plain value, called with two arguments,
\* fulfilled with the value that the last yield received.
C22_Witness ==
    /\ spawn.st = "fulfilled"
    /\ spawn.args = <<"a", "b">>
    /\ Len(spawn.program) = 3
    /\ spawn.program[1].kind = "promise"
    /\ spawn.program[2].kind = "plain"
    /\ spawn.program[3].what = "last"
    /\ spawn.value = spawn.program[2].value
    /\ Len(spawn.calls) = 3


\* The k-th call on the generator made it raise: an error thrown in at a
\* yield outside try/catch, or a raise as the next operation.
RaisedAt(k) ==
    IF k > 1 /\ spawn.calls[k].verb = "throw" /\ ~spawn.program[k - 1].catches
    THEN TRUE
    ELSE spawn.program[k].op = "raise"

\* The error that the k-th call raised.
ErrorRaisedAt(k) ==
    IF k > 1 /\ spawn.calls[k].verb = "throw" /\ ~spawn.program[k - 1].catches
    THEN spawn.calls[k].arg
    ELSE spawn.program[k].value

\* C23: if the computation raises synchronously at any step, also when a
\* rejection is thrown into it and it does not handle it, the promise of
\* async_spawn rejects with that error and the computation is not driven
\* again: that call is the last next or throw call made on it.
C23_RaiseRejects ==
    /\ [](\A k \in 1..Len(spawn.calls) :
            RaisedAt(k) => /\ spawn.st = "rejected"
                           /\ spawn.value = ErrorRaisedAt(k)
                           /\ Len(spawn.calls) = k)
    /\ [][(\E k \in 1..Len(spawn.calls) : RaisedAt(k)) => spawn'.calls = spawn.calls]_vars

\* A computation that raised at its second step, after a yield: the promise
\* is rejected with the error raised.
C23_Witness ==
    /\ Len(spawn.program) = 2
    /\ spawn.program[1].op = "yield"
    /\ spawn.program[2].op = "raise"
    /\ Len(spawn.calls) = 2
    /\ spawn.calls[2].verb = "next"
    /\ spawn.st = "rejected"
    /\ spawn.value = spawn.program[2].value


(***************************************************************************)
(* The client of index.ts: createCadesPluginClient wraps the facade that   *)
(* installCadesPlugin returns and adds ready = Promise.resolve(raw), which *)
(* follows the thenable facade; initCadesPluginClient awaits ready.        *)
(***************************************************************************)
\* installCadesPlugin(win, doc, options) throws instead of returning.
installThrows(opts) == ~existingFacade(facade) /\ optionsError(opts) # NoReason

\* ready takes the outcome of the facade, a rejection turned into success.
followFulfilled(cl, st, rsn) == [cl EXCEPT !.ready = "resolved"]

\* ready: Promise.resolve(raw) calls raw.then(resolve, reject), so ready
\* takes the outcome of initPromise.
follow(cl, st, rsn) == [cl EXCEPT !.ready = st, !.reason = rsn]

\* createCadesPluginClient(win, doc, options)
createCadesPluginClient(opts, globalTimeout, userAgent) ==
    /\ ~client.made
    /\ client.init = "none"
    /\ callInstallCadesPlugin(opts, globalTimeout, userAgent)
    /\ client' = IF installThrows(opts) THEN client
                 ELSE [client EXCEPT !.made = TRUE]

\* initCadesPluginClient(win, doc, options) up to its await: an async
\* function, so that an exception of installCadesPlugin rejects its promise.
initCadesPluginClient(opts, globalTimeout, userAgent) ==
    /\ ~client.made
    /\ client.init = "none"
    /\ callInstallCadesPlugin(opts, globalTimeout, userAgent)
    /\ client' = IF installThrows(opts)
                 THEN [client EXCEPT !.init = "rejected", !.reason = optionsError(opts)]
                 ELSE [client EXCEPT !.made = TRUE, !.init = "awaiting"]

\* The callbacks that Promise.resolve(raw) registered on initPromise run.
ReadyFollows ==
    /\ client.made
    /\ client.ready = "pending"
    /\ state # "pending"
    /\ client' = follow(client, state, reason)
    /\ UNCHANGED handshakeVars
    /\ UNCHANGED <<loadTimeoutMs, handshakeTimeoutMs, negotiations, result, writable,
                   currentLogLevel, logged, spawn, util, ext, twin>>

\* await client.ready; return client
InitReturns ==
    /\ client.init = "awaiting"
    /\ client.ready # "pending"
    /\ client' = [client EXCEPT !.init = IF client.ready = "resolved"
                                         THEN "returned" ELSE "rejected"]
    /\ UNCHANGED handshakeVars
    /\ UNCHANGED <<loadTimeoutMs, handshakeTimeoutMs, negotiations, result, writable,
                   currentLogLevel, logged, spawn, util, ext, twin>>

\* Options of the client: the defaults, and a timeout that is refused.
ClientOptions == {NoOptions, [NoOptions EXCEPT !.timeoutMs = JsNumber(0)]}

ClientNext ==
    \/ /\ pc = "idle"
       /\ installCadesPlugin(NoOptions, JsUndefined, ChromeUserAgent)
    \/ \E opts \in ClientOptions :
          CallsAgain /\ createCadesPluginClient(opts, JsUndefined, ChromeUserAgent)
    \/ \E opts \in ClientOptions :
          CallsAgain /\ initCadesPluginClient(opts, JsUndefined, ChromeUserAgent)
    \/ ReadyFollows
    \/ InitReturns
    \/ \E hasApi \in BOOLEAN : ScriptLoaded(hasApi, PageOrigin, NoReason)
    \/ ScriptError
    \/ \E event \in PageMessages, sync \in SyncOutcomes : Message(event, sync)
    \/ HandshakeTimeout
    \/ GlobalTimeout
    \/ NativeOk
    \/ \E e \in NativeErrors : NativeFail(e)
    \/ Resume
    \/ \E obj \in PluginObjects : set_pluginObject(obj)

\* The callbacks of a settled promise are run: the job queue is drained.
ClientSpec ==
    /\ Init
    /\ [][ClientNext]_vars
    /\ WF_vars(ReadyFollows)
    /\ WF_vars(InitReturns)


(***************************************************************************)
(* Claim about the client.                                                 *)
(***************************************************************************)
\* ready never runs ahead of the facade and never differs from it.
ReadyBehindFacade ==
    client.made =>
        /\ state = "pending" => client.ready = "pending"
        /\ client.ready = "resolved" => state = "resolved"
        /\ client.ready = "rejected" => (state = "rejected" /\ client.reason = reason)

\* initCadesPluginClient has returned the client only if ready is resolved.
ReturnedWhenReady ==
    client.init = "returned" => (client.ready = "resolved" /\ state = "resolved")

\* C28: the ready promise of createCadesPluginClient mirrors the handshake
\* state of the facade: it is pending while the facade is pending, resolves
\* only when the facade resolved and then does resolve, rejects with the same
\* error when the facade rejects; initCadesPluginClient returns the client
\* only after that resolution, and does return it then.
C28_ReadyMirrorsFacade ==
    /\ [](ReadyBehindFacade /\ ReturnedWhenReady)
    /\ (client.made /\ state = "resolved") ~> (client.ready = "resolved")
    /\ (client.made /\ state = "rejected")
          ~> (client.ready = "rejected" /\ client.reason = reason)
    /\ (client.init = "awaiting" /\ state = "resolved") ~> (client.init = "returned")

\* initCadesPluginClient has returned the client of a negotiation that it
\* started itself and that went through the handshake.
C28_Witness ==
    /\ client.init = "returned"
    /\ client.ready = "resolved"
    /\ result.op = "installCadesPlugin"
    /\ result.outcome = "installed"
    /\ pc = "done"
    /\ state = "resolved"


(***************************************************************************)
(* The utils module: detectBrowser, isValidCryptoProExtensionApiUrl and    *)
(* parsePostMessageStringResponse, called by the page on inputs of its     *)
(* choice.                                                                 *)
(***************************************************************************)
\* CRYPTOPRO_EXTENSION_ORIGINS
CRYPTOPRO_EXTENSION_ORIGINS ==
    <<"chrome-extension://" \o CRYPTOPRO_EXTENSION_IDS.opera,
      "chrome-extension://" \o CRYPTOPRO_EXTENSION_IDS.manifestV2,
      "chrome-extension://" \o CRYPTOPRO_EXTENSION_IDS.manifestV3>>

\* A check of the origin alone.
isKnownExtensionOriginUrl(url) ==
    /\ url.typeof = "string"
    /\ Len(url.value) # 0
    /\ \E i \in 1..Len(CRYPTOPRO_EXTENSION_ORIGINS) :
          startsWith(url.value, CRYPTOPRO_EXTENSION_ORIGINS[i] \o "/")

\* isValidCryptoProExtensionApiUrl
isValidCryptoProExtensionApiUrl(url) ==
    IF url.typeof # "string" \/ Len(url.value) = 0 THEN FALSE
    ELSE \E i \in 1..Len(CRYPTOPRO_EXTENSION_ORIGINS) :
            url.value = CRYPTOPRO_EXTENSION_ORIGINS[i] \o "/nmcades_plugin_api.js"

\* String.prototype.slice(start) for a start within the string.
slice(text, start) == SubSeq(text, start + 1, Len(text))

\* A parse that cuts the prefix off whatever the string starts with.
parseWithoutPrefixCheck(data, prefix) ==
    IF data.typeof # "string" THEN [isNull |-> TRUE, text |-> ""]
    ELSE [isNull |-> FALSE, text |-> slice(data.value, min(Len(prefix), Len(data.value)))]

\* parsePostMessageStringResponse: the string after the prefix, or null.
parsePostMessageStringResponse(data, prefix) ==
    IF data.typeof # "string" THEN [isNull |-> TRUE, text |-> ""]
    ELSE IF ~startsWith(data.value, prefix) THEN [isNull |-> TRUE, text |-> ""]
    ELSE [isNull |-> FALSE, text |-> slice(data.value, Len(prefix))]

\* The variables a call of a function of the utils module leaves alone.
utilFrame ==
    <<handshakeVars, loadTimeoutMs, handshakeTimeoutMs, negotiations, result, writable,
      currentLogLevel, logged, spawn, client, ext, twin>>

detectBrowserCall(userAgent) ==
    /\ util' = [NoUtil EXCEPT !.fn = "detectBrowser", !.userAgent = userAgent,
                              !.name = detectBrowser(userAgent).name,
                              !.major = detectBrowser(userAgent).major]
    /\ UNCHANGED utilFrame

isValidCryptoProExtensionApiUrlCall(url) ==
    /\ util' = [NoUtil EXCEPT !.fn = "isValidCryptoProExtensionApiUrl", !.data = url,
                              !.accepted = isValidCryptoProExtensionApiUrl(url)]
    /\ UNCHANGED utilFrame

parsePostMessageStringResponseCall(data, prefix) ==
    /\ util' = [NoUtil EXCEPT !.fn = "parsePostMessageStringResponse", !.data = data,
                              !.prefix = prefix,
                              !.isNull = parsePostMessageStringResponse(data, prefix).isNull,
                              !.text = parsePostMessageStringResponse(data, prefix).text]
    /\ UNCHANGED utilFrame

\* User agents: up to MaxSegments products separated by blanks.
MaxSegments == 3

Segments ==
    {"Mozilla/5.0", "Chrome/121", "Edg/120", "OPR/106", "YaBrowser/24",
     "HeadlessChrome/119", "Edg/", "OPR/x", "chrome/7"}

RECURSIVE UserAgentsOf(_)
UserAgentsOf(n) ==
    IF n = 0 THEN {""}
    ELSE UserAgentsOf(n - 1)
         \cup {IF ua = "" THEN s ELSE ua \o " " \o s : ua \in UserAgentsOf(n - 1), s \in Segments}

\* Values handed to isValidCryptoProExtensionApiUrl.
UrlInputs ==
    {Str(o \o p) :
        o \in {CRYPTOPRO_EXTENSION_ORIGINS[1], CRYPTOPRO_EXTENSION_ORIGINS[2],
               CRYPTOPRO_EXTENSION_ORIGINS[3],
               "chrome-extension://aaaaaaaaaaaaaaaaaaaaaaaaaaaaaaaa",
               "moz-extension://" \o CRYPTOPRO_EXTENSION_IDS.manifestV3,
               "https://cdn.example", " chrome-extension://" \o CRYPTOPRO_EXTENSION_IDS.opera,
               ""},
        p \in {"/nmcades_plugin_api.js", "/other.js", "", "/nmcades_plugin_api.js?v=1",
               "/nmcades_plugin_api.js/", "/NMCADES_PLUGIN_API.JS"}}
    \cup {Num("5"), [typeof |-> "undefined", value |-> ""], [typeof |-> "object", value |-> ""]}

VersionPrefix == "cadesplugin_extension_version_response:"
IdPrefix == "cadesplugin_extension_id_response:"

\* Values handed to parsePostMessageStringResponse as data and as prefix.
DataInputs ==
    {Str(p \o t) : p \in {VersionPrefix, IdPrefix, "", "cadesplugin_extension_version_response",
                          " " \o IdPrefix},
                   t \in {"", "1.2.3", "abc", ":"}}
    \cup {Num("5"), [typeof |-> "undefined", value |-> ""], [typeof |-> "object", value |-> ""]}

PrefixInputs == {VersionPrefix, IdPrefix, "", "abc"}

\* One call is followed from the initial state.
UtilsNext ==
    \/ \E ua \in UserAgentsOf(MaxSegments) :
          util = NoUtil /\ detectBrowserCall(ua)
    \/ \E url \in UrlInputs :
          util = NoUtil /\ isValidCryptoProExtensionApiUrlCall(url)
    \/ \E data \in DataInputs, prefix \in PrefixInputs :
          util = NoUtil /\ parsePostMessageStringResponseCall(data, prefix)

UtilsSpec == Init /\ [][UtilsNext]_vars


(***************************************************************************)
(* Claims about the utils module.                                          *)
(***************************************************************************)
\* The families of detectBrowser with their tokens, in the stated priority.
StatedFamilies ==
    <<<<"Edg", "Edg/">>, <<"Opera", "OPR/">>, <<"YaBrowser", "YaBrowser/">>,
      <<"Chrome", "Chrome/">>>>

\* The first family, in the stated priority, for which the test holds of
\* its token; Other when it holds of none.
FirstFamily(holds(_)) ==
    IF \E k \in 1..4 : holds(StatedFamilies[k][2])
    THEN StatedFamilies[CHOOSE k \in 1..4 :
                            /\ holds(StatedFamilies[k][2])
                            /\ \A j \in 1..(k - 1) : ~holds(StatedFamilies[j][2])][1]
    ELSE "Other"

\* C31 as stated: detectBrowser reports the first family, in the order Edg,
\* Opera, YaBrowser, Chrome, whose token occurs in the user agent, and Other
\* with a null major version when no token occurs.
C31_Original ==
    util.fn = "detectBrowser" =>
        LET occurs(token) == includes(util.userAgent, token)
        IN  /\ util.name = FirstFamily(occurs)
            /\ util.name = "Other" => util.major = JsNull

\* The token stands at position i of the user agent, at the start of a word
\* and before the digits that spell the number n up to the next non-digit.
TokenWithNumberAt(ua, token, i, n) ==
    LET from == i + Len(token)
        to == from + Len(decimal(n)) - 1
    IN  /\ to <= Len(ua)
        /\ SubSeq(ua, i, from - 1) = token
        /\ i = 1 \/ ~isWordChar(charAt(ua, i - 1))
        /\ SubSeq(ua, from, to) = decimal(n)
        /\ to = Len(ua) \/ ~includes(DigitChars, charAt(ua, to + 1))

\* The numbers that follow tokens in the user agents followed.
Majors == {5, 7, 24, 106, 119, 120, 121}

\* C31: detectBrowser reports the first family, in the order Edg, Opera
\* (token OPR), YaBrowser, Chrome, whose token occurs in the user agent at the
\* start of a word and followed by a digit, with the number that follows the
\* first such occurrence of that token as major version; a user agent with
\* such an occurrence of Chrome/ and of Edg/, OPR/ or YaBrowser/ is never
\* reported as Chrome; when no token occurs in that way the result is Other
\* with a null major version.
C31_DetectBrowser ==
    util.fn = "detectBrowser" =>
        LET ua == util.userAgent
            occurs(token) == \E i \in 1..Len(ua), n \in Majors : TokenWithNumberAt(ua, token, i, n)
            tokenOf(name) == StatedFamilies[CHOOSE k \in 1..4 : StatedFamilies[k][1] = name][2]
        IN  /\ util.name = FirstFamily(occurs)
            /\ IF util.name = "Other" THEN util.major = JsNull
               ELSE /\ util.major.typeof = "number"
                    /\ \E i \in 1..Len(ua) :
                          /\ TokenWithNumberAt(ua, tokenOf(util.name), i, util.major.num)
                          /\ \A j \in 1..(i - 1), n \in Majors :
                                ~TokenWithNumberAt(ua, tokenOf(util.name), j, n)
            /\ (occurs("Chrome/") /\ (occurs("Edg/") \/ occurs("OPR/") \/ occurs("YaBrowser/")))
                  => util.name # "Chrome"

\* An Opera user agent, which names Chrome before OPR.
C31_Witness ==
    /\ util.fn = "detectBrowser"
    /\ util.userAgent = "Mozilla/5.0 Chrome/121 OPR/106"
    /\ util.name = "Opera"
    /\ util.major = JsNumber(106)


\* C32: isValidCryptoProExtensionApiUrl returns true exactly for the three
\* URLs made of a known extension origin and /nmcades_plugin_api.js, and
\* false for every other input: an empty string, a value that is no string,
\* another script name on a known origin, another origin or scheme.
C32_KnownOriginsOnly ==
    util.fn = "isValidCryptoProExtensionApiUrl" =>
        (util.accepted <=> util.data \in {Str(OperaUrl), Str(ManifestV2Url), Str(ManifestV3Url)})

\* The API script of the manifest V3 extension is accepted.
C32_Witness ==
    /\ util.fn = "isValidCryptoProExtensionApiUrl"
    /\ util.data = Str(ManifestV3Url)
    /\ util.accepted

\* C33: parsePostMessageStringResponse(data, prefix) returns the part of data
\* after prefix when data is a string that starts with prefix, and null in
\* every other case; prefix followed by a result that is not null is data.
C33_ParseResponse ==
    util.fn = "parsePostMessageStringResponse" =>
        LET starts == /\ util.data.typeof = "string"
                      /\ \E n \in 0..Len(util.data.value) :
                            SubSeq(util.data.value, 1, n) = util.prefix
        IN  /\ util.isNull <=> ~starts
            /\ ~util.isNull => util.prefix \o util.text = util.data.value

\* A version response parsed with the version prefix.
C33_Witness ==
    /\ util.fn = "parsePostMessageStringResponse"
    /\ util.data = Str("cadesplugin_extension_version_response:1.2.3")
    /\ util.prefix = "cadesplugin_extension_version_response:"
    /\ ~util.isNull
    /\ util.text = "1.2.3"


(***************************************************************************)
(* Claims about the order of the negotiation.                              *)
(***************************************************************************)
\* Idle, LoadingCandidate, AwaitingEcho, AwaitingNativeHost, Settled.
StageOf(p) ==
    IF p = "idle" THEN 0
    ELSE IF p = "loading" THEN 1
    ELSE IF p = "echo" THEN 2
    ELSE IF p = "native" THEN 3
    ELSE 4

EchoRequestPosted == \E i \in 1..Len(posted) : posted[i] = "cadesplugin_echo_request"

\* The stage never goes back and, while candidates are loaded, neither does
\* the candidate.
MovesForward ==
    [][/\ StageOf(pc') >= StageOf(pc)
       /\ (pc = "loading" /\ pc' = "loading") => idx' >= idx]_vars

\* The echo request is posted by the step in which a candidate script loaded
\* and the entry point of the bridge was found, not before.
EchoAfterLoad ==
    /\ [](EchoRequestPosted =>
             /\ loadedUrl # Null
             /\ bridge
             /\ scripts[Len(scripts)] = onload(scriptElement(loadedUrl))
             /\ StageOf(pc) >= 2)
    /\ [][Len(posted') > Len(posted) => (pc = "loading" /\ pc' = "echo")]_vars

\* The native-host check is invoked by the step that takes an accepted echo
\* reply, not before.
NativeAfterEcho ==
    /\ [](nativeCalls > 0 => (EchoRequestPosted /\ StageOf(pc) >= 3))
    /\ [][nativeCalls' # nativeCalls =>
             /\ nativeCalls' = nativeCalls + 1
             /\ pc = "echo"
             /\ pc' = "native"
             /\ lastMsg'.source = "win"
             /\ origin # Null => lastMsg'.origin = origin
             /\ lastMsg'.data.typeof = "string"
             /\ includes(lastMsg'.data.value, "cadesplugin_loaded")]_vars

\* The facade is resolved by the step that follows a native-host check that
\* reported success, with a plugin object present, not before.
ResolvedAfterNative ==
    /\ [](state = "resolved" =>
             (nativeCalls > 0 /\ nativePromise.st = "resolved" /\ pc = "done"))
    /\ [][(state' = "resolved" /\ state # "resolved") =>
             /\ pc = "native"
             /\ nativePromise.st = "resolved"
             /\ pluginObject # "null"]_vars

\* C34: the negotiation only moves forward through Idle, LoadingCandidate(i),
\* AwaitingEcho, AwaitingNativeHost, Settled: the echo request is never
\* posted before a candidate script has loaded and the entry point of the
\* bridge was found, the native-host check is never invoked before an
\* accepted echo reply, and the facade is resolved only after the native-host
\* check reported success with a plugin object present.
C34_ForwardOnly ==
    /\ MovesForward
    /\ EchoAfterLoad
    /\ NativeAfterEcho
    /\ ResolvedAfterNative

\* A negotiation that went through every stage on its second candidate and
\* resolved the facade.
C34_Witness ==
    /\ pc = "done"
    /\ state = "resolved"
    /\ idx = 2
    /\ EchoRequestPosted
    /\ nativeCalls = 1
    /\ nativePromise.st = "resolved"


(***************************************************************************)
(* Claims about the publication of the facade.                             *)
(***************************************************************************)
\* The step is a call of installCadesPlugin that starts a negotiation.
StartsNegotiation == InstallCall /\ result'.outcome = "installed"

\* Something of a negotiation exists: its timer, a script element, a stage.
NegotiationUnderWay == timeoutId # "unarmed" \/ scripts # <<>> \/ pc # "idle"

\* The bridge can call set() on the facade held by the window.
SetFindsFacade == ENABLED set_pluginObject("objWithCreateObjectAsync")

\* C35 as stated: the call that starts the negotiation publishes the pending
\* facade as window.cadesplugin in the same step that arms the global timer
\* and injects the first script, so that whenever a timer or a script of the
\* negotiation exists the window holds the facade and set() finds it.
C35_Original ==
    /\ [][StartsNegotiation => facade']_vars
    /\ [](NegotiationUnderWay => (facade /\ SetFindsFacade))

\* C35: installCadesPlugin assigns the facade to window.cadesplugin, in the
\* pending state and exposing set(), before the global timer is armed and
\* before any candidate script is injected: on a window that takes the
\* assignment, the step that arms the timer and injects the first script
\* finds neither of them before and leaves the window holding the pending
\* facade, and set() finds the facade in every later state; on a window that
\* refuses the assignment the failure is ignored and the window holds no
\* facade.
C35_PublishedFirst ==
    /\ [][StartsNegotiation =>
             /\ timeoutId # "armed"
             /\ pc = "idle"
             /\ timeoutId' = "armed"
             /\ Len(scripts') = Len(scripts) + 1
             /\ state' = "pending"
             /\ pluginObject' = "null"
             /\ facade' = writable]_vars
    /\ [](NegotiationUnderWay => (facade = writable))
    /\ [](facade => SetFindsFacade)
    /\ [][facade => facade']_vars

\* The bridge has called set() on the published facade while the first
\* candidate was still loading.
C35_Witness ==
    /\ writable
    /\ facade
    /\ pc = "loading"
    /\ idx = 1
    /\ pluginObject = "objWithCreateObjectAsync"
    /\ state = "pending"


(***************************************************************************)
(* Claims about the CSP violation recorder.                                *)
(***************************************************************************)
\* The load failure was reported: init threw CSP_BLOCKED or
\* EXTENSION_API_LOAD_FAILED.
LoadFailureReported ==
    /\ caught.kind = "CadesPluginError"
    /\ caught.code \in {"CSP_BLOCKED", "EXTENSION_API_LOAD_FAILED"}

\* C36: a negotiation registers exactly one securitypolicyviolation listener,
\* in the step that attempts its first candidate, and removes it in the step
\* that ends the candidate loop, by a successful load or by exhaustion of the
\* candidates (no step of the loop ends it by an exception); the listener is
\* not registered when the echo request is posted or when the load failure is
\* reported, and no violation is recorded from then on.
C36_RecorderScope ==
    /\ [](cspListening <=> pc = "loading")
    /\ [][(cspListening' /\ ~cspListening) =>
             (StartsNegotiation /\ idx' = 1 /\ Len(scripts') = Len(scripts) + 1)]_vars
    /\ [][(cspListening /\ ~cspListening') =>
             /\ pc = "loading"
             /\ pc' # "loading"
             /\ \/ loadedUrl' = urls[idx] /\ scripts'[Len(scripts')].st = "loaded"
                \/ idx = Len(urls) /\ scripts'[Len(scripts')].st = "removed"]_vars
    /\ []((EchoRequestPosted \/ LoadFailureReported) => ~cspListening)
    /\ [][~cspListening' => (violations' = violations \/ StartsNegotiation)]_vars
    /\ [][(~cspListening /\ ~StartsNegotiation) => violations' = violations]_vars

\* The recorder has recorded a violation for the only candidate tried so far
\* and was stopped when that candidate failed as the last one.
C36_Witness ==
    /\ Len(violations) = 1
    /\ ~cspListening
    /\ LoadFailureReported
    /\ caught.code = "CSP_BLOCKED"
    /\ pc = "done"


(***************************************************************************)
(* Claims about the release of listeners and timers.                       *)
(***************************************************************************)
\* waitForMessage is under way: its listener is registered, its timer armed.
EchoWaitUnderWay == echoListener /\ handshakeTimer = "armed"

\* Neither resource of the echo wait is held.
EchoWaitReleased == ~echoListener /\ handshakeTimer # "armed"

\* The step in which the handler of the wait takes a reply the predicate
\* accepts.
EndsByReply ==
    /\ echoPredicate(lastMsg')
    /\ handshakeTimer' = "cleared"
    /\ nativeCalls' = nativeCalls + 1
    /\ pc' = "native"

\* The step in which the timer of the wait fires.
EndsByTimer ==
    /\ handshakeTimer' = "fired"
    /\ pc' = "done"
    /\ caught'.kind = "CadesPluginError"
    /\ caught'.code = "HANDSHAKE_TIMEOUT"

\* C39: the echo wait holds its listener and its timer together; it is begun
\* at most once, by the step that posts the echo request, and ended by one
\* step, which is either the acceptance of a reply or the firing of its
\* timer and which releases both the listener and the timer for good.  Every
\* step that ends the negotiator's run leaves the global timer disarmed, and
\* after the run has ended no timer is armed and no listener registered.
C39_Released ==
    /\ [](EchoWaitUnderWay \/ EchoWaitReleased)
    /\ [](EchoWaitUnderWay <=> pc = "echo")
    /\ [][(EchoWaitUnderWay' /\ ~EchoWaitUnderWay) =>
             (pc = "loading" /\ handshakeTimer = "unarmed" /\ EchoRequestPosted')]_vars
    /\ [][(EchoWaitUnderWay /\ ~EchoWaitUnderWay') =>
             (EchoWaitReleased' /\ (EndsByReply \/ EndsByTimer) /\ ~(EndsByReply /\ EndsByTimer))]_vars
    /\ [][(EchoWaitReleased /\ handshakeTimer # "unarmed") => EchoWaitReleased']_vars
    /\ [][(pc # "done" /\ pc' = "done") => timeoutId' \in {"cleared", "fired"}]_vars
    /\ [](pc = "done" => Quiescent)
    /\ [][pc = "done" => (Quiescent' \/ StartsNegotiation)]_vars

\* The echo wait was ended by a reply, the native-host check succeeded and
\* the run ended with the global timer cleared before it fired.
C39_Witness ==
    /\ pc = "done"
    /\ handshakeTimer = "cleared"
    /\ timeoutId = "cleared"
    /\ ~echoListener
    /\ nativeCalls = 1
    /\ caught.kind = "ok"


(***************************************************************************)
(* loadScript on its own: next to the events of Spec, the document may     *)
(* refuse to give up an element (script.remove() throws), and an element   *)
(* may signal again after its handlers were taken off.                     *)
(***************************************************************************)
\* A load or error signal on an element whose onload and onerror are null:
\* no handler runs.
LateSignal(i) ==
    /\ i \in 1..Len(scripts)
    /\ ~scripts[i].handlers
    /\ UNCHANGED vars

LoadNext ==
    \/ Next
    \/ ScriptErrorWith(TRUE)
    \/ \E i \in 1..MaxUrls : LateSignal(i)

LoadSpec == Init /\ [][LoadNext]_vars

\* The step calls loadScript: one element more in the document.
LoadScriptCalled == Len(scripts') = Len(scripts) + 1

\* Element i takes its load signal in the step: it stays in the document and
\* the candidate is the one that loaded.
ResolvedOnLoad(i) ==
    /\ scripts'[i] = onload(scripts[i])
    /\ loadedUrl' = scripts[i].src

\* Element i takes its error signal in the step: it is out of the document
\* unless remove() threw, and the failure handed on is the load error.
RejectedOnError(i) ==
    /\ scripts'[i] \in {onerror(scripts[i], FALSE), onerror(scripts[i], TRUE)}
    /\ lastLoadError' = loadFailedMessage(scripts[i].src)
    /\ loadedUrl' = loadedUrl
    /\ caught'.kind \in {"", "CadesPluginError"}
    /\ caught'.kind = "CadesPluginError" =>
          /\ caught'.code \in {"CSP_BLOCKED", "EXTENSION_API_LOAD_FAILED"}
          /\ caught'.cause = loadFailedMessage(scripts[i].src)

\* C38: every loadScript call appends exactly one script element, of type
\* text/javascript with async and defer set, both handlers set and src the
\* URL of the candidate it was called for, and calls are as many as
\* candidates tried.  An element changes once at most, on its first signal:
\* on load it stays in the document and the call resolves; on error it is
\* removed, or stays if remove() threw, and either way the call rejects with
\* "Failed to load script: <src>"; later signals change nothing.  An error
\* is followed by at most one call, for the next candidate.
C38_LoadScript ==
    /\ [](\A i \in 1..Len(scripts) :
             /\ scripts[i].src = urls[i]
             /\ scripts[i].type = "text/javascript"
             /\ scripts[i].async
             /\ scripts[i].defer
             /\ scripts[i].handlers <=> scripts[i].st = "loading"
             /\ scripts[i].st \in {"loading", "loaded", "removed", "failed"})
    /\ [](pc # "idle" => Len(scripts) = idx)
    /\ [][/\ Len(scripts') \in {Len(scripts), Len(scripts) + 1}
          /\ LoadScriptCalled =>
                /\ scripts'[Len(scripts')] = scriptElement(urls'[idx'])
                /\ idx' = idx + 1
                /\ pc' = "loading"]_vars
    /\ [][\A i \in 1..Len(scripts) :
             \/ scripts'[i] = scripts[i]
             \/ /\ scripts[i].st = "loading"
                /\ i = Len(scripts)
                /\ ResolvedOnLoad(i) \/ RejectedOnError(i)]_vars
    /\ [][ScriptError => scripts'[Len(scripts)].st = "removed"]_vars
    /\ [][ScriptErrorWith(TRUE) =>
             /\ scripts'[Len(scripts)].st = "failed"
             /\ lastLoadError' = loadFailedMessage(urls[idx])]_vars
    /\ [][(\E i \in 1..Len(scripts) : LateSignal(i)) => UNCHANGED vars]_vars

\* The first element errored and could not be removed, the second errored and
\* was removed, the third loaded and stays; the failure kept is that of the
\* second.
C38_Witness ==
    /\ Len(scripts) = 3
    /\ [i \in 1..3 |-> scripts[i].st] = <<"failed", "removed", "loaded">>
    /\ lastLoadError = loadFailedMessage(urls[2])
    /\ loadedUrl = urls[3]


(***************************************************************************)
(* get_extension_version and get_extension_id.  ext holds one record per   *)
(* call: the function, the origin it read, the prefix of the response it   *)
(* waits for, whether its listener is registered, what its callback was    *)
(* given, and what the call threw.                                         *)
(***************************************************************************)
MaxExtCalls == 2

\* A handler that calls the callback before it removes the listener: a
\* callback that throws leaves the listener registered.
extHandlerCallbackFirst(call, event, callbackThrows) ==
    IF ~call.listening THEN call
    ELSE IF event.source # "win" THEN call
    ELSE IF call.origin # Null /\ event.origin # call.origin THEN call
    ELSE LET version == parsePostMessageStringResponse(event.data, call.prefix)
         IN  IF version.isNull \/ version.text = "" THEN call
             ELSE [call EXCEPT !.listening = callbackThrows,
                               !.delivered = Append(@, version.text)]

\* The handler of one call on a message event: events from another source,
\* from another origin when the origin was read, and data without the prefix
\* or with nothing after it are passed over; otherwise the listener is
\* removed and the callback called, whatever the callback then does.
extHandler(call, event, callbackThrows) ==
    IF ~call.listening THEN call
    ELSE IF event.source # "win" THEN call
    ELSE IF call.origin # Null /\ event.origin # call.origin THEN call
    ELSE LET version == parsePostMessageStringResponse(event.data, call.prefix)
         IN  IF version.isNull \/ version.text = "" THEN call
             ELSE [call EXCEPT !.listening = removeEventListener(call.listening),
                               !.delivered = Append(@, version.text)]

\* The body the two functions share: the origin is read (null when reading
\* it throws), the request is posted, which throws in a window without
\* postMessage, and the handler is registered.
extensionQuery(fn, request, prefix, pageOrigin, post) ==
    /\ facade
    /\ Len(ext) < MaxExtCalls
    /\ ext' = Append(ext, [fn |-> fn, origin |-> pageOrigin, prefix |-> prefix,
                           listening |-> post = NoReason, delivered |-> <<>>,
                           threw |-> post])
    /\ posted' = IF post = NoReason THEN Append(posted, request) ELSE posted
    /\ result' = [NoResult EXCEPT !.op = fn,
                                  !.outcome = IF post = NoReason THEN "returned" ELSE "threw",
                                  !.error = post]
    /\ UNCHANGED <<pc, urls, idx, scripts, cspListening, violations, lastCspViolation,
                   lastLoadError, loadedUrl, bridge, origin, echoListener,
                   handshakeTimer, nativeCalls, nativePromise, pluginObject, facade,
                   settled, state, reason, timeoutId, caught, lastMsg>>
    /\ UNCHANGED <<loadTimeoutMs, handshakeTimeoutMs, negotiations, writable,
                   currentLogLevel, logged, spawn, client, util, twin>>

get_extension_version(pageOrigin, post) ==
    extensionQuery("get_extension_version", "cadesplugin_extension_version_request",
                   VersionPrefix, pageOrigin, post)

get_extension_id(pageOrigin, post) ==
    extensionQuery("get_extension_id", "cadesplugin_extension_id_request",
                   IdPrefix, pageOrigin, post)

\* A message event on the window, as the handlers of the calls see it; what
\* the echo wait makes of an event is the matter of Message.
ExtMessage(event, callbackThrows) ==
    /\ ext # <<>>
    /\ lastMsg' = event
    /\ ext' = [i \in 1..Len(ext) |-> extHandler(ext[i], event, callbackThrows)]
    /\ UNCHANGED <<pc, urls, idx, scripts, cspListening, violations, lastCspViolation,
                   lastLoadError, loadedUrl, bridge, posted, origin, echoListener,
                   handshakeTimer, nativeCalls, nativePromise, pluginObject, facade,
                   settled, state, reason, timeoutId, caught>>
    /\ UNCHANGED <<loadTimeoutMs, handshakeTimeoutMs, negotiations, result, writable,
                   currentLogLevel, logged, spawn, client, util, twin>>

\* Message events for the handlers: responses of both kinds, one without a
\* payload, and a number; from the page and from a frame, with the origin of
\* the page and with another.
ExtMessages ==
    { [source |-> s, origin |-> o, data |-> d] :
         s \in {"win", "frame"}, o \in {PageOrigin, ForeignOrigin},
         d \in {Str(VersionPrefix \o "1.2.3"), Str(VersionPrefix), Str(IdPrefix \o "abc"),
                Num("123")} }

ExtNext ==
    \/ /\ pc = "idle"
       /\ installCadesPlugin(NoOptions, JsUndefined, ChromeUserAgent)
    \/ \E hasApi \in BOOLEAN : ScriptLoaded(hasApi, PageOrigin, NoReason)
    \/ ScriptError
    \/ Message([source |-> "win", origin |-> PageOrigin, data |-> Str("cadesplugin_loaded")],
               [st |-> "pending", value |-> Undefined, via |-> Null])
    \/ GlobalTimeout
    \/ \E pageOrigin \in {PageOrigin, Null}, post \in {NoReason} \cup PostFailures :
          get_extension_version(pageOrigin, post)
    \/ \E pageOrigin \in {PageOrigin, Null}, post \in {NoReason} \cup PostFailures :
          get_extension_id(pageOrigin, post)
    \/ \E event \in ExtMessages, callbackThrows \in BOOLEAN : ExtMessage(event, callbackThrows)

ExtSpec == Init /\ [][ExtNext]_vars


(***************************************************************************)
(* Claims about get_extension_version and get_extension_id.                *)
(***************************************************************************)
\* The step is a call of one of the two functions.
ExtCall == Len(ext') = Len(ext) + 1

RequestOf(fn) ==
    IF fn = "get_extension_version" THEN "cadesplugin_extension_version_request"
    ELSE "cadesplugin_extension_id_request"

\* The data is the response prefix of the call followed by a payload.
CarriesPayload(call, event) ==
    /\ event.data.typeof = "string"
    /\ startsWith(event.data.value, call.prefix)
    /\ Len(event.data.value) > Len(call.prefix)

PayloadOf(call, event) ==
    SubSeq(event.data.value, Len(call.prefix) + 1, Len(event.data.value))

\* The filter as C40 states it: source the page window, origin the page
\* origin, data the prefix and a payload.
PassesStated(call, event) ==
    /\ event.source = "win"
    /\ event.origin = PageOrigin
    /\ CarriesPayload(call, event)

\* The filter with the origin compared only where the call could read it.
PassesRead(call, event) ==
    /\ event.source = "win"
    /\ call.origin # Null => event.origin = call.origin
    /\ CarriesPayload(call, event)

\* The variables of the negotiation, the list of posted messages and the
\* last message event apart.
negotiationVars ==
    <<pc, urls, idx, scripts, cspListening, violations, lastCspViolation,
      lastLoadError, loadedUrl, bridge, origin, echoListener, handshakeTimer,
      nativeCalls, nativePromise, pluginObject, facade, settled, state, reason,
      timeoutId, caught>>

\* The callback of a call is called at most once, and a call whose listener
\* is registered has not called it.
AtMostOnce ==
    \A i \in 1..Len(ext) :
       /\ Len(ext[i].delivered) <= 1
       /\ ext[i].listening => (ext[i].delivered = <<>> /\ ext[i].threw = NoReason)

\* C40 as stated: every call posts its request, and the callback is given
\* the payload of a message only if the message has the origin of the page.
C40_Original ==
    [][/\ ExtCall => posted' = Append(posted, RequestOf(ext'[Len(ext')].fn))
       /\ \A i \in 1..Len(ext) :
             (~ExtCall /\ ext'[i].delivered # ext[i].delivered) =>
                 PassesStated(ext[i], lastMsg')]_vars

\* C40: a call posts exactly one request and registers its listener, or, in
\* a window whose postMessage throws, posts nothing, registers nothing and
\* throws; it changes nothing of the negotiation and nothing of earlier
\* calls.  The callback is called at most once: a message event reaches it
\* exactly if the listener is registered, the source is the page window, the
\* origin is the one the call read (any origin when it could not be read)
\* and the data is the response prefix followed by a non-empty payload; the
\* callback is given that payload and the listener is off whatever the
\* callback does; every other event leaves the call as it was.
C40_ExtensionQueries ==
    /\ []AtMostOnce
    /\ [][ExtCall =>
             LET call == ext'[Len(ext')]
             IN  /\ call.delivered = <<>>
                 /\ call.threw = NoReason =>
                       (posted' = Append(posted, RequestOf(call.fn)) /\ call.listening)
                 /\ call.threw # NoReason =>
                       /\ posted' = posted
                       /\ ~call.listening
                       /\ result'.outcome = "threw"
                       /\ result'.error = call.threw
                 /\ UNCHANGED negotiationVars
                 /\ UNCHANGED lastMsg
                 /\ \A i \in 1..Len(ext) : ext'[i] = ext[i]]_vars
    /\ [][\A i \in 1..Len(ext) :
             (~ExtCall /\ ext'[i] # ext[i]) =>
                 /\ ext[i].listening
                 /\ PassesRead(ext[i], lastMsg')
                 /\ ext'[i] = [ext[i] EXCEPT !.listening = FALSE,
                                             !.delivered = <<PayloadOf(ext[i], lastMsg')>>]]_vars
    /\ [][\A event \in ExtMessages, callbackThrows \in BOOLEAN :
             ExtMessage(event, callbackThrows) =>
                 /\ UNCHANGED negotiationVars
                 /\ posted' = posted
                 /\ \A i \in 1..Len(ext) :
                       IF ext[i].listening /\ PassesRead(ext[i], event)
                       THEN /\ ~ext'[i].listening
                            /\ ext'[i].delivered = <<PayloadOf(ext[i], event)>>
                       ELSE ext'[i] = ext[i]]_vars

\* While the negotiation waits for the echo, a call of get_extension_version
\* that could not read the origin was given the version by a message from
\* another origin, and a call of get_extension_id still listens.
C40_Witness ==
    /\ pc = "echo"
    /\ Len(ext) = 2
    /\ ext[1].fn = "get_extension_version"
    /\ ext[1].origin = Null
    /\ ext[1].delivered = <<"1.2.3">>
    /\ ~ext[1].listening
    /\ lastMsg.origin = ForeignOrigin
    /\ ext[2].fn = "get_extension_id"
    /\ ext[2].listening


(***************************************************************************)
(* Two runs of one negotiation.  The variables of the negotiation hold the *)
(* run whose turn it is, twin.other holds the run that waits.  Every event *)
(* of scripts, messages, callbacks and timers is announced and then given  *)
(* to the first run and to the second, each run taking it by the action of *)
(* the model for that event; securitypolicyviolation events are given to   *)
(* the run whose turn it is and to no other, so that the two runs differ   *)
(* in them and in nothing else.                                            *)
(***************************************************************************)
\* The run held by the variables of the negotiation.
Run ==
    [pc |-> pc, urls |-> urls, idx |-> idx, scripts |-> scripts,
     cspListening |-> cspListening, violations |-> violations,
     lastCspViolation |-> lastCspViolation, lastLoadError |-> lastLoadError,
     loadedUrl |-> loadedUrl, bridge |-> bridge, posted |-> posted, origin |-> origin,
     echoListener |-> echoListener, handshakeTimer |-> handshakeTimer,
     nativeCalls |-> nativeCalls, nativePromise |-> nativePromise,
     pluginObject |-> pluginObject, facade |-> facade, settled |-> settled,
     state |-> state, reason |-> reason, timeoutId |-> timeoutId, caught |-> caught,
     lastMsg |-> lastMsg, logged |-> logged]

\* An error with what the classification of a load failure puts into it left
\* out: the code, where it is CSP_BLOCKED or EXTENSION_API_LOAD_FAILED, and
\* the violation among the details.
Unclassified(error) ==
    IF error.kind = "CadesPluginError"
       /\ error.code \in {"CSP_BLOCKED", "EXTENSION_API_LOAD_FAILED"}
    THEN [error EXCEPT !.code = "load failure", !.details.cspViolation = NoViolation]
    ELSE error

\* What is to be the same in both runs: everything but the violations
\* recorded, the violation kept and the classification of a load failure.
Course(run) ==
    [run EXCEPT !.violations = <<>>, !.lastCspViolation = NoViolation,
                !.caught = Unclassified(run.caught),
                !.reason = Unclassified(run.reason)]

\* The run that waits takes the variables, the run that had them waits.
Swap(turn, acted) ==
    /\ pc' = twin.other.pc
    /\ urls' = twin.other.urls
    /\ idx' = twin.other.idx
    /\ scripts' = twin.other.scripts
    /\ cspListening' = twin.other.cspListening
    /\ violations' = twin.other.violations
    /\ lastCspViolation' = twin.other.lastCspViolation
    /\ lastLoadError' = twin.other.lastLoadError
    /\ loadedUrl' = twin.other.loadedUrl
    /\ bridge' = twin.other.bridge
    /\ posted' = twin.other.posted
    /\ origin' = twin.other.origin
    /\ echoListener' = twin.other.echoListener
    /\ handshakeTimer' = twin.other.handshakeTimer
    /\ nativeCalls' = twin.other.nativeCalls
    /\ nativePromise' = twin.other.nativePromise
    /\ pluginObject' = twin.other.pluginObject
    /\ facade' = twin.other.facade
    /\ settled' = twin.other.settled
    /\ state' = twin.other.state
    /\ reason' = twin.other.reason
    /\ timeoutId' = twin.other.timeoutId
    /\ caught' = twin.other.caught
    /\ lastMsg' = twin.other.lastMsg
    /\ logged' = twin.other.logged
    /\ twin' = [twin EXCEPT !.turn = turn, !.acted = acted, !.other = Run,
                            !.before = Course(twin.other)]
    /\ UNCHANGED <<loadTimeoutMs, handshakeTimeoutMs, negotiations, result, writable,
                   currentLogLevel, spawn, client, util, ext>>

twinFrame ==
    <<handshakeVars, loadTimeoutMs, handshakeTimeoutMs, negotiations, result, writable,
      currentLogLevel, logged, spawn, client, util, ext>>

NoEvent == [kind |-> "none", hasApi |-> FALSE, msg |-> NoMsg,
            sync |-> [st |-> "pending", value |-> Undefined, via |-> Null],
            value |-> Undefined, obj |-> "null"]

\* The events given to both runs.
TwinEvents ==
    { [NoEvent EXCEPT !.kind = "load", !.hasApi = b] : b \in BOOLEAN }
    \cup { [NoEvent EXCEPT !.kind = k] :
              k \in {"error", "handshakeTimeout", "globalTimeout", "nativeOk", "resume"} }
    \cup { [NoEvent EXCEPT !.kind = "message", !.msg = m, !.sync = s] :
              m \in PageMessages,
              s \in {[st |-> "pending", value |-> Undefined, via |-> Null],
                     [st |-> "resolved", value |-> Undefined, via |-> "callback"]} }
    \cup { [NoEvent EXCEPT !.kind = "nativeFail", !.value = "native host is not installed"],
           [NoEvent EXCEPT !.kind = "set", !.obj = "objWithCreateObjectAsync"] }

\* The run whose turn it is takes the event, by the action of that event, and
\* the event does something to it.
Takes(event) ==
    /\ \/ event.kind = "load" /\ ScriptLoaded(event.hasApi, PageOrigin, NoReason)
       \/ event.kind = "error" /\ ScriptError
       \/ event.kind = "message" /\ Message(event.msg, event.sync)
       \/ event.kind = "handshakeTimeout" /\ HandshakeTimeout
       \/ event.kind = "globalTimeout" /\ GlobalTimeout
       \/ event.kind = "nativeOk" /\ NativeOk
       \/ event.kind = "nativeFail" /\ NativeFail(event.value)
       \/ event.kind = "resume" /\ Resume
       \/ event.kind = "set" /\ set_pluginObject(event.obj)
    /\ Course(Run)' # Course(Run)

\* The run whose turn it is has not taken the event yet.
Waiting == twin.turn \in {"first", "second"} /\ Course(Run) = twin.before

\* installCadesPlugin has started the negotiation: from here on there are
\* two runs, alike so far.
Fork ==
    /\ twin.turn = "off"
    /\ pc = "loading"
    /\ twin' = [turn |-> "choose", event |-> NoEvent, acted |-> FALSE,
                before |-> Course(Run), other |-> Run]
    /\ UNCHANGED twinFrame

\* The next event for both runs.
Announce(event) ==
    /\ twin.turn = "choose"
    /\ twin' = [twin EXCEPT !.turn = "first", !.event = event, !.acted = FALSE,
                            !.before = Course(Run)]
    /\ UNCHANGED twinFrame

TwinTakes == Waiting /\ Takes(twin.event)

\* A securitypolicyviolation event for the run whose turn it is.
TwinCspViolation(uri) == twin.turn \in {"first", "second"} /\ CspViolation(uri)

\* The first run has taken the event, or the event does nothing to it: the
\* second run has its turn.
Pass ==
    /\ twin.turn = "first"
    /\ Waiting => ~ENABLED Takes(twin.event)
    /\ Swap("second", ~Waiting)

\* The second run has taken the event, or the event does nothing to it: the
\* first run is back and the next event can be announced.
Join ==
    /\ twin.turn = "second"
    /\ Waiting => ~ENABLED Takes(twin.event)
    /\ Swap("choose", twin.acted)

\* Two candidates, and violation events for the first, for the second and
\* without a blockedURI.
TwinOptions ==
    [NoOptions EXCEPT !.extensionApiUrls = JsArray(<<Str(UrlPool[1]), Str(UrlPool[2])>>)]

TwinBlockedUris == {"", UrlPool[1], UrlPool[2]}

TwinNext ==
    \/ /\ pc = "idle"
       /\ installCadesPlugin(TwinOptions, JsUndefined, ChromeUserAgent)
    \/ Fork
    \/ \E event \in TwinEvents : Announce(event)
    \/ TwinTakes
    \/ \E uri \in TwinBlockedUris : TwinCspViolation(uri)
    \/ Pass
    \/ Join

TwinSpec == Init /\ [][TwinNext]_vars


\* Both runs have been given every event announced so far.
InStep == twin.turn = "choose"

\* C37: two runs of a negotiation that are given the same script, message,
\* callback and timer events and differ in the securitypolicyviolation
\* events they are given stay alike in everything but the violations
\* recorded and the classification of a load failure: after every event the
\* candidates attempted, the script elements, the stage, the timers, the
\* listeners, the messages posted and logged and the outcome of the facade
\* are the same, and the rejections differ at most in CSP_BLOCKED against
\* EXTENSION_API_LOAD_FAILED and in the violation they carry.  An event does
\* something to the second run exactly if it did something to the first, and
\* a violation event changes nothing but the list of violations.
C37_SameCourse ==
    /\ [](InStep => Course(Run) = Course(twin.other))
    /\ []((twin.turn = "second" /\ Waiting) => (twin.acted <=> ENABLED Takes(twin.event)))
    /\ [][(twin' = twin /\ violations' # violations) => Course(Run)' = Course(Run)]_vars

\* Both runs tried every candidate and failed; the first was given a
\* violation for a candidate and ends with CSP_BLOCKED, the second was given
\* none and ends with EXTENSION_API_LOAD_FAILED.
C37_Witness ==
    /\ InStep
    /\ pc = "done"
    /\ twin.other.pc = "done"
    /\ Len(scripts) = Len(urls)
    /\ twin.other.scripts = scripts
    /\ violations # <<>>
    /\ twin.other.violations = <<>>
    /\ reason.code = "CSP_BLOCKED"
    /\ twin.other.reason.code = "EXTENSION_API_LOAD_FAILED"
    /\ state = "rejected"
    /\ twin.other.state = "rejected"

====
